---- MODULE Spec2Model ----
(***************************************************************************)
(* Agentic knowledge-graph construction: schema inference, dependency      *)
(* ordering, batched node upserts, relationship creation and verification, *)
(* and the sessions and goals the agents work under.                       *)
(*                                                                         *)
(* Text is modelled as a sequence of one-character strings so that         *)
(* str.lower, str.title, str.replace and str.endswith are computed rather  *)
(* than assumed.                                                           *)
(***************************************************************************)
EXTENDS Integers, Sequences, FiniteSets, TLC

VARIABLES
    files,            \* analyze_structured_data_tool: the `files` argument
    schema_proposal,  \* tool_context.state["structured_schema_proposal"]
    schema_status,    \* status of the result analyze_structured_data_tool returned
    store_nodes,      \* graph store: the nodes, each a label and a property map
    store_rels,       \* graph store: the directed relationships
    store_constraints,\* graph store: the uniqueness constraints in force
    tool_state,       \* an agent's tool_context.state
    tool_result,      \* what the agent's last tool call returned
    tool_trace,       \* the collaborator calls of the agent's last tool call
    data_files,       \* construct_graph.py: the frames of the csv files in data_dir
    frames,           \* construct_graph.py: the frames a caller passes to create_nodes
    pc,               \* construct_graph.py: where the script is
    construction,     \* construct_graph.py: the construct_complete_graph call under way
    call,             \* construct_graph.py: the create_nodes call under way or returned
    sent,             \* construct_graph.py: the statements sent since the entry point
    history,          \* construct_graph.py: one record per finished construction run
    upserted,         \* construct_graph.py: the projections of the batches that succeeded
    faults,           \* the store failures that have happened
    session_objects,  \* session_manager.py: the Session objects made so far, by id
    sessions,         \* SessionManager.sessions: the ids of the sessions it holds
    session_files,    \* SessionManager.storage_dir: the session files, by id
    session_timeout,  \* SessionManager.session_timeout, in seconds
    now,              \* datetime.utcnow(), in minutes
    session_result,   \* session_manager.py: the last call and what it returned
    task_starts       \* session_manager.py: the start_task calls made, by session

schemaVars == <<files, schema_proposal, schema_status>>
storeVars == <<store_nodes, store_rels, store_constraints>>
agentVars == <<tool_state, tool_result, tool_trace>>

scriptVars == <<data_files, frames, pc, construction, call, sent, history, upserted, faults>>
sessionVars == <<session_objects, sessions, session_files, session_timeout, now,
                 session_result, task_starts>>
vars == <<schemaVars, storeVars, agentVars, scriptVars, sessionVars>>

(***************************************************************************)
(* Python string operations over character sequences                       *)
(***************************************************************************)
LowerChars == <<"a","b","c","d","e","g","i","k","m","n","p","s","t","u","v","x","y">>
UpperChars == <<"A","B","C","D","E","G","I","K","M","N","P","S","T","U","V","X","Y">>

Range(s) == {s[i] : i \in DOMAIN s}

IndexIn(c, chars) == CHOOSE i \in DOMAIN chars : chars[i] = c

IsUpperChar(c) == c \in Range(UpperChars)
IsLowerChar(c) == c \in Range(LowerChars)
IsLetter(c) == IsUpperChar(c) \/ IsLowerChar(c)

LowerChar(c) == IF IsUpperChar(c) THEN LowerChars[IndexIn(c, UpperChars)] ELSE c
UpperChar(c) == IF IsLowerChar(c) THEN UpperChars[IndexIn(c, LowerChars)] ELSE c

\* str.lower()
Lower(s) == [i \in DOMAIN s |-> LowerChar(s[i])]

\* str.upper()
Upper(s) == [i \in DOMAIN s |-> UpperChar(s[i])]

\* str.title(): a letter that follows a non-letter (or starts the string) is
\* upper-cased, every other letter is lower-cased.
Title(s) ==
    [i \in DOMAIN s |->
        IF i = 1 \/ ~IsLetter(s[i - 1]) THEN UpperChar(s[i]) ELSE LowerChar(s[i])]

\* str.endswith(suffix)
EndsWith(s, suffix) ==
    /\ Len(s) >= Len(suffix)
    /\ SubSeq(s, Len(s) - Len(suffix) + 1, Len(s)) = suffix

\* str.replace(old, new): every non-overlapping occurrence, left to right
RECURSIVE Replace(_, _, _)
Replace(s, old, new) ==
    IF Len(s) < Len(old) THEN s
    ELSE IF SubSeq(s, 1, Len(old)) = old
         THEN new \o Replace(SubSeq(s, Len(old) + 1, Len(s)), old, new)
         ELSE <<s[1]>> \o Replace(Tail(s), old, new)

\* Path(filename).stem: the name without its last suffix
RECURSIVE LastDot(_, _)
LastDot(s, i) == IF i = 0 THEN 0 ELSE IF s[i] = "." THEN i ELSE LastDot(s, i - 1)

Stem(filename) ==
    LET d == LastDot(filename, Len(filename))
    IN IF d <= 1 THEN filename ELSE SubSeq(filename, 1, d - 1)

DotCsv == <<".","c","s","v">>
UnderscoreMapping == <<"_","m","a","p","p","i","n","g">>
MappingWord == <<"M","a","p","p","i","n","g">>
UnderscoreId == <<"_","i","d">>
IdWord == <<"i","d">>
BelongsTo == <<"B","E","L","O","N","G","S","_","T","O","_">>

(***************************************************************************)
(* Schema proposal agent: analyze_structured_data_tool and its helpers     *)
(***************************************************************************)
MaxFiles == 3

Str_a == <<"a">>
Str_A == <<"A">>
Str_b == <<"b">>
Str_c == <<"c">>
Str_id == <<"i","d">>
Str_ID == <<"I","D">>
Str_name == <<"n","a","m","e">>
Str_title == <<"t","i","t","l","e">>
Str_uuid == <<"u","u","i","d">>
Str_key == <<"k","e","y">>
Str_a_id == <<"a","_","i","d">>
Str_A_ID == <<"A","_","I","D">>
Str_aid == <<"a","i","d">>
Str_b_id == <<"b","_","i","d">>
Str_bid == <<"b","i","d">>
Str_c_id == <<"c","_","i","d">>
Str_txt == <<".","t","x","t">>
Str_C_id == <<"C","_","i","d">>

\* The record sets an analysis can be given: a file name, the header row that
\* sample_file reports for it and the status of that sample_file call.
FileCatalogue ==
    { [name |-> Str_a \o DotCsv, headers |-> <<Str_id, Str_b_id>>, sample |-> "success"],
      [name |-> Str_a \o DotCsv, headers |-> <<Str_a_id, Str_name>>, sample |-> "success"],
      [name |-> Str_b \o DotCsv, headers |-> <<Str_ID, Str_c_id>>, sample |-> "success"],
      [name |-> Str_b \o DotCsv, headers |-> <<Str_bid, Str_A_ID>>, sample |-> "success"],
      [name |-> Str_b \o DotCsv, headers |-> <<Str_id>>, sample |-> "error"],
      [name |-> Str_c \o DotCsv, headers |-> <<Str_uuid, Str_name>>, sample |-> "success"],
      [name |-> Str_c \o DotCsv, headers |-> <<Str_key, Str_aid>>, sample |-> "success"],
      [name |-> Str_c \o DotCsv, headers |-> <<Str_C_id, Str_name>>, sample |-> "success"],
      [name |-> Str_A \o DotCsv, headers |-> <<Str_title>>, sample |-> "success"],
      [name |-> Str_b \o UnderscoreMapping \o DotCsv, headers |-> <<Str_b_id, Str_c_id>>,
       sample |-> "success"],
      [name |-> Str_c \o Str_txt, headers |-> <<Str_id, Str_a_id>>, sample |-> "success"] }

\* A file name denotes one file: two entries of a list that carry the same
\* name are the same file.
FileLists ==
    { fs \in UNION { [1..n -> FileCatalogue] : n \in 0..MaxFiles } :
        \A i, j \in DOMAIN fs : fs[i].name = fs[j].name => fs[i] = fs[j] }

NoProposal ==
    [files_analyzed |-> <<>>, nodes |-> <<>>, relationships |-> <<>>,
     constraints |-> <<>>, import_order |-> <<>>]

\* _infer_node_label
InferNodeLabel(filename) ==
    LET name == Stem(filename)
    IN IF EndsWith(name, UnderscoreMapping)
       THEN Title(Replace(name, UnderscoreMapping, <<>>)) \o MappingWord
       ELSE Title(Replace(name, <<"_">>, <<>>))

\* _extract_properties_from_sample
ExtractPropertiesFromSample(headers) ==
    [i \in DOMAIN headers |->
        [name |-> headers[i],
         type |-> "string",
         required |-> Lower(headers[i]) \in {Str_id, Str_name, Str_title}]]

\* _infer_primary_key: the name of the first matching property, or None
RECURSIVE InferPrimaryKeyFrom(_, _)
InferPrimaryKeyFrom(properties, i) ==
    IF i > Len(properties) THEN <<>>
    ELSE IF Lower(properties[i].name) \in {Str_id, Str_uuid, Str_key}
         THEN properties[i].name
         ELSE InferPrimaryKeyFrom(properties, i + 1)

\* None is written as the empty name: no header row entry of the catalogue is empty.
InferPrimaryKey(properties) == InferPrimaryKeyFrom(properties, 1)

\* _infer_relationships, innermost loop: the other nodes, in list order
RECURSIVE RelationshipsOfProp(_, _, _, _)
RelationshipsOfProp(node, prop, nodes, k) ==
    IF k > Len(nodes) THEN <<>>
    ELSE LET other_node == nodes[k]
             prop_name == Lower(prop.name)
             other_label == Lower(other_node.label)
             hit == /\ node # other_node
                    /\ \/ prop_name = other_label \o UnderscoreId
                       \/ prop_name = other_label \o IdWord
         IN (IF hit
             THEN << [type |-> BelongsTo \o Upper(other_node.label),
                      from_label |-> node.label,
                      to_label |-> other_node.label,
                      property |-> prop.name] >>
             ELSE <<>>)
            \o RelationshipsOfProp(node, prop, nodes, k + 1)

\* _infer_relationships, middle loop: the properties of one node
RECURSIVE RelationshipsOfNode(_, _, _)
RelationshipsOfNode(node, nodes, j) ==
    IF j > Len(node.properties) THEN <<>>
    ELSE RelationshipsOfProp(node, node.properties[j], nodes, 1)
         \o RelationshipsOfNode(node, nodes, j + 1)

\* _infer_relationships, outer loop
RECURSIVE RelationshipsFrom(_, _)
RelationshipsFrom(nodes, i) ==
    IF i > Len(nodes) THEN <<>>
    ELSE RelationshipsOfNode(nodes[i], nodes, 1) \o RelationshipsFrom(nodes, i + 1)

InferRelationships(nodes) == RelationshipsFrom(nodes, 1)

\* has_foreign_key of _calculate_import_order
HasForeignKey(node, relationships) ==
    \E r \in DOMAIN relationships : relationships[r].from_label = node.label

SourceFiles(nodes) == [i \in DOMAIN nodes |-> nodes[i].source_file]

\* A variant of _calculate_import_order that keeps the input order
CalculateImportOrder_InputOrder(nodes, relationships) == SourceFiles(nodes)

\* A variant of _calculate_import_order that puts the dependent nodes first
CalculateImportOrder_DependentFirst(nodes, relationships) ==
    LET Independent(n) == ~HasForeignKey(n, relationships)
        Dependent(n) == HasForeignKey(n, relationships)
    IN SourceFiles(SelectSeq(nodes, Dependent)) \o SourceFiles(SelectSeq(nodes, Independent))

\* A variant of _calculate_import_order that puts each node at the front of
\* its list instead of at the end
CalculateImportOrder_NewestFirst(nodes, relationships) ==
    LET Independent(n) == ~HasForeignKey(n, relationships)
        Dependent(n) == HasForeignKey(n, relationships)
        Reversed(xs) == [k \in DOMAIN xs |-> xs[Len(xs) + 1 - k]]
    IN Reversed(SourceFiles(SelectSeq(nodes, Independent)))
           \o Reversed(SourceFiles(SelectSeq(nodes, Dependent)))

\* _calculate_import_order: independent nodes first, then dependent nodes
CalculateImportOrder(nodes, relationships) ==
    LET Independent(n) == ~HasForeignKey(n, relationships)
        Dependent(n) == HasForeignKey(n, relationships)
    IN SourceFiles(SelectSeq(nodes, Independent)) \o SourceFiles(SelectSeq(nodes, Dependent))

\* The loop of analyze_structured_data_tool over `files`: the node list
RECURSIVE AnalyzedNodes(_, _)
AnalyzedNodes(fs, i) ==
    IF i > Len(fs) THEN <<>>
    ELSE LET f == fs[i]
             properties == ExtractPropertiesFromSample(f.headers)
         IN (IF ~EndsWith(f.name, DotCsv) \/ f.sample # "success"
             THEN <<>>
             ELSE << [label |-> InferNodeLabel(f.name),
                      source_file |-> f.name,
                      properties |-> properties,
                      primary_key |-> InferPrimaryKey(properties)] >>)
            \o AnalyzedNodes(fs, i + 1)

\* The constraints the loop appends: one per node whose primary key is truthy
RECURSIVE ConstraintsOf(_, _)
ConstraintsOf(nodes, i) ==
    IF i > Len(nodes) THEN <<>>
    ELSE (IF nodes[i].primary_key # <<>>
          THEN << [type |-> "uniqueness", label |-> nodes[i].label,
                   property |-> nodes[i].primary_key] >>
          ELSE <<>>)
         \o ConstraintsOf(nodes, i + 1)

ProposeSchema(fs) ==
    LET nodes == AnalyzedNodes(fs, 1)
        relationships == InferRelationships(nodes)
    IN [files_analyzed |-> fs,
        nodes |-> nodes,
        relationships |-> relationships,
        constraints |-> ConstraintsOf(nodes, 1),
        import_order |-> CalculateImportOrder(nodes, relationships)]

\* analyze_structured_data_tool
AnalyzeStructuredData ==
    /\ schema_status = "none"
    /\ schema_proposal' = ProposeSchema(files)
    /\ schema_status' = "success"
    /\ UNCHANGED <<sessionVars, files, storeVars, agentVars, scriptVars>>

(***************************************************************************)
(* The graph store behind graphdb.send_query: what the Cypher statements   *)
(* that the constructor issues do to nodes, relationships and constraints  *)
(***************************************************************************)
NaN == "NaN"

\* The status of one call into the store client: a result with status
\* 'success', a result with status 'error', or an exception
Outcomes == {"success", "error", "raise"}

\* A node has an identity of its own: two nodes can carry the same label
\* and the same properties
Node(id, label, props) == [id |-> id, label |-> label, props |-> props]

\* The greatest identity in use among nodes or among relationships
MaxId(xs) ==
    LET ids == { x.id : x \in xs }
    IN IF ids = {} THEN 0 ELSE CHOOSE m \in ids : \A id \in ids : id <= m

\* The pattern (:label {props}) with any property of the map as the key
NodeMatches_AnyProperty(n, label, props) ==
    /\ n.label = label
    /\ \E k \in DOMAIN props : k \in DOMAIN n.props /\ n.props[k] = props[k]

\* The pattern (:label {props}) matches a node that carries the label and
\* every property of the map with the same value
NodeMatches(n, label, props) ==
    /\ n.label = label
    /\ \A k \in DOMAIN props : k \in DOMAIN n.props /\ n.props[k] = props[k]

\* Creating (:label {props}) would break a uniqueness constraint in force
BreaksConstraint(ns, cs, label, props) ==
    \E c \in cs :
        /\ c.label = label
        /\ c.property \in DOMAIN props
        /\ \E n \in ns : /\ n.label = label
                         /\ c.property \in DOMAIN n.props
                         /\ n.props[c.property] = props[c.property]

\* One statement made of MERGE (:label {props}) clauses, run in order as a
\* single transaction. A clause creates its node unless a node matches it: a
\* node of the store, or the node of an earlier clause, and the node an
\* earlier clause matched matches every clause that clause's node would. The
\* statement fails as a whole when a creation breaks a uniqueness constraint.
Creating(ns, label, projections) ==
    { k \in DOMAIN projections :
        /\ ~\E n \in ns : NodeMatches(n, label, projections[k])
        /\ ~\E j \in 1..(k - 1) : NodeMatches(Node(0, label, projections[j]), label,
                                               projections[k]) }

MergeNodes(ns, cs, label, projections) ==
    LET creating == Creating(ns, label, projections)
        last == MaxId(ns)
        created(k) == Node(last + Cardinality({ c \in creating : c <= k }), label,
                           projections[k])
        before(k) == ns \cup { created(j) : j \in { c \in creating : c < k } }
    IN IF \E k \in creating : BreaksConstraint(before(k), cs, label, projections[k])
       THEN [ok |-> FALSE, nodes |-> ns]
       ELSE [ok |-> TRUE, nodes |-> ns \cup { created(k) : k \in creating }]

\* CREATE CONSTRAINT ... IF NOT EXISTS ... REQUIRE n.property IS UNIQUE can
\* be created when it exists already or when no two nodes of the label share
\* a value of the property
ConstraintCreatable(ns, cs, label, property) ==
    LET holders == { n \in ns : n.label = label /\ property \in DOMAIN n.props }
    IN \/ [label |-> label, property |-> property] \in cs
       \/ Cardinality({ n.props[property] : n \in holders }) = Cardinality(holders)

\* A relationship has an identity of its own as well
Rel(id, type, from, to) == [id |-> id, type |-> type, from |-> from, to |-> to]

\* MATCH (from:from_label), (to:to_label) WHERE from.p = to.q with a missing
\* property taken for a value that equals itself
MatchingPairs_NullsEqual(ns, from_label, from_property, to_label, to_property) ==
    { pair \in ns \X ns :
        /\ pair[1].label = from_label
        /\ pair[2].label = to_label
        /\ \/ /\ from_property \notin DOMAIN pair[1].props
              /\ to_property \notin DOMAIN pair[2].props
           \/ /\ from_property \in DOMAIN pair[1].props
              /\ to_property \in DOMAIN pair[2].props
              /\ pair[1].props[from_property] = pair[2].props[to_property] }

\* MATCH (from:from_label), (to:to_label) WHERE from.p = to.q: a comparison
\* with a missing property is null and the row is dropped
MatchingPairs(ns, from_label, from_property, to_label, to_property) ==
    { pair \in ns \X ns :
        /\ pair[1].label = from_label
        /\ pair[2].label = to_label
        /\ from_property \in DOMAIN pair[1].props
        /\ to_property \in DOMAIN pair[2].props
        /\ pair[1].props[from_property] = pair[2].props[to_property] }

\* The relationships created for the pairs, numbered in the order of the
\* identities of their ends
NewRels(rs, type, pairs) ==
    LET last == MaxId(rs)
        rank(pair) == Cardinality({ o \in pairs :
                                      \/ o[1].id < pair[1].id
                                      \/ o[1].id = pair[1].id /\ o[2].id <= pair[2].id })
    IN { Rel(last + rank(pair), type, pair[1], pair[2]) : pair \in pairs }

\* CREATE (from)-[r:type]->(to) over the matched rows: a relationship is
\* created for every pair
MergeRels_AlwaysCreate(rs, type, pairs) == rs \cup NewRels(rs, type, pairs)

\* MERGE (from)-[r:type]->(to) over the matched rows: a relationship is
\* created for a pair unless one of that type and direction exists
MergeRels(rs, type, pairs) ==
    rs \cup NewRels(rs, type,
                    { pair \in pairs :
                        ~\E r \in rs : r.type = type /\ r.from = pair[1] /\ r.to = pair[2] })

(***************************************************************************)
(* Record sets: a DataFrame is a sequence of rows, a row maps the columns  *)
(* of its file to values, NaN standing for an empty cell                   *)
(***************************************************************************)
\* The properties a row contributes, a row with no unique property
\* contributing none
Projection_KeyRequired(row, unique_property, properties) ==
    LET wanted == {unique_property} \cup Range(properties)
        kept == { k \in wanted : k \in DOMAIN row /\ row[k] # NaN }
    IN IF unique_property \in kept THEN [k \in kept |-> row[k]] ELSE <<>>

\* The properties a row contributes: the unique property and the listed
\* properties that are columns of the row and are not NaN
Projection(row, unique_property, properties) ==
    LET wanted == {unique_property} \cup Range(properties)
        kept == { k \in wanted : k \in DOMAIN row /\ row[k] # NaN }
    IN [k \in kept |-> row[k]]

\* The projections of the rows of a frame that have at least one property
\* (`if props:`), in row order
HasProps(props) == DOMAIN props # {}

MergeStatements(df, unique_property, properties) ==
    SelectSeq([k \in DOMAIN df |-> Projection(df[k], unique_property, properties)],
              HasProps)

(***************************************************************************)
(* Knowledge graph constructor agent: the tool wrappers                    *)
(***************************************************************************)
MaxConfigs == 2
MaxConstraintsTracked == 2

\* get_default_construction_plan, the entries the tools are called with
DefaultConstructionPlan ==
    << [label |-> "Product", csv_file |-> "products.csv", unique_property |-> "product_id",
        properties |-> <<"product_name", "price", "description">>],
       [label |-> "Assembly", csv_file |-> "assemblies.csv", unique_property |-> "assembly_id",
        properties |-> <<"assembly_name", "quantity", "product_id">>] >>

\* The contents the csv files of the plan can have
ToolFrames(csv_file) ==
    IF csv_file = "products.csv"
    THEN { << [product_id |-> "P1", product_name |-> "chair"] >>,
           << [product_id |-> "P1", product_name |-> "chair"],
              [product_id |-> "P2", product_name |-> NaN] >> }
    ELSE { << [assembly_id |-> "A1", product_id |-> "P1"] >>,
           << [assembly_id |-> "P1", product_id |-> "P2"],
              [assembly_id |-> "A2", product_id |-> NaN] >> }

\* The relationship descriptors create_relationships_tool is called with:
\* the first of get_default_relationship_configs and variations of it
RelationshipConfigs ==
    { [from_label |-> "Product", to_label |-> "Assembly",
       relationship_type |-> "CONTAINS", match_property |-> "product_id"],
      [from_label |-> "Product", to_label |-> "Assembly",
       relationship_type |-> "CONTAINS", match_property |-> "assembly_id"],
      [from_label |-> "Assembly", to_label |-> "Assembly",
       relationship_type |-> "SAME_PRODUCT", match_property |-> "product_id"] }

ConfirmArgs == {"omitted", "False", "True"}

\* confirm: bool = False
ConfirmFlag(confirm) == IF confirm = "omitted" THEN FALSE ELSE confirm = "True"

NoVerification == [present |-> FALSE]

InitialToolState ==
    [neo4j_ready |-> FALSE,
     database_cleared |-> FALSE,
     constraints_created |-> <<>>,
     nodes_imported |-> <<>>,
     relationships_created |-> <<>>,
     graph_verification |-> NoVerification]

NoResult == [tool |-> "none", status |-> "none"]

\* process_error letting the exception go on to the caller of the tool
ProcessError_Reraise(tool, args) ==
    [tool |-> tool, args |-> args, status |-> "raise", raised |-> TRUE]

\* BaseAgent.process_error: an exception becomes a result with status 'error'
ProcessError(tool, args) == [tool |-> tool, args |-> args, status |-> "error", raised |-> TRUE]

\* utils.tools.clear_neo4j_data: ClearAll
ClearNeo4jData(outcome) ==
    /\ store_nodes' = IF outcome = "success" THEN {} ELSE store_nodes
    /\ store_rels' = IF outcome = "success" THEN {} ELSE store_rels
    /\ UNCHANGED store_constraints

\* clear_database_tool
ClearDatabaseTool(confirm, outcome) ==
    LET args == [confirm |-> confirm]
    IN IF ~ConfirmFlag(confirm)
       THEN /\ tool_result' = [tool |-> "clear_database", args |-> args,
                               status |-> "error", raised |-> FALSE]
            /\ tool_trace' = <<>>
            /\ UNCHANGED <<storeVars, tool_state>>
       ELSE /\ ClearNeo4jData(outcome)
            /\ tool_trace' = << <<"clear_neo4j_data", outcome>> >>
            /\ tool_state' = IF outcome = "success"
                             THEN [tool_state EXCEPT !.database_cleared = TRUE]
                             ELSE tool_state
            /\ tool_result' = IF outcome = "raise"
                              THEN ProcessError("clear_database", args)
                              ELSE [tool |-> "clear_database", args |-> args,
                                    status |-> outcome, raised |-> FALSE]

\* utils.tools.create_uniqueness_constraint: EnsureConstraint
CreateUniquenessConstraint(cs, label, property_key, outcome) ==
    IF outcome = "success"
    THEN cs \cup {[label |-> label, property |-> property_key]}
    ELSE cs

\* create_constraint_tool
CreateConstraintTool(label, property_key, outcome) ==
    LET args == [label |-> label, property_key |-> property_key]
    IN /\ Len(tool_state.constraints_created) < MaxConstraintsTracked
       /\ outcome = "success"
              => ConstraintCreatable(store_nodes, store_constraints, label, property_key)
       /\ store_constraints' =
              CreateUniquenessConstraint(store_constraints, label, property_key, outcome)
       /\ tool_trace' = << <<"create_uniqueness_constraint", outcome>> >>
       /\ tool_state' =
              IF outcome = "success"
              THEN [tool_state EXCEPT !.constraints_created =
                                          Append(@, <<label, property_key>>)]
              ELSE tool_state
       /\ tool_result' = IF outcome = "raise"
                         THEN ProcessError("create_constraint", args)
                         ELSE [tool |-> "create_constraint", args |-> args,
                               status |-> outcome, raised |-> FALSE]
       /\ UNCHANGED <<store_nodes, store_rels>>

\* utils.tools.load_nodes_from_csv: UpsertNodes over the records of the file
LoadNodesFromCsv(ns, cs, df, label, unique_property, properties) ==
    MergeNodes(ns, cs, label, MergeStatements(df, unique_property, properties))

\* import_csv_nodes_tool
ImportCsvNodesTool(entry, df, constraint_outcome, load_outcome) ==
    LET args == [csv_file |-> entry.csv_file, label |-> entry.label]
    IN /\ constraint_outcome = "success"
              => ConstraintCreatable(store_nodes, store_constraints,
                                     entry.label, entry.unique_property)
       /\ store_constraints' =
              CreateUniquenessConstraint(store_constraints, entry.label,
                                         entry.unique_property, constraint_outcome)
       /\ IF constraint_outcome = "raise"
          THEN /\ tool_trace' = << <<"create_uniqueness_constraint", constraint_outcome>> >>
               /\ tool_result' = ProcessError("import_csv_nodes", args)
               /\ UNCHANGED <<store_nodes, store_rels, tool_state>>
          ELSE LET loaded == LoadNodesFromCsv(store_nodes, store_constraints', df, entry.label,
                                              entry.unique_property, entry.properties)
               IN /\ load_outcome = "success" => loaded.ok
                  /\ tool_trace' = << <<"create_uniqueness_constraint", constraint_outcome>>,
                                       <<"load_nodes_from_csv", load_outcome>> >>
                  /\ store_nodes' = IF load_outcome = "success" THEN loaded.nodes
                                    ELSE store_nodes
                  /\ tool_state' =
                         IF load_outcome = "success"
                         THEN [tool_state EXCEPT !.nodes_imported =
                                 [l \in DOMAIN @ \cup {entry.label} |->
                                     IF l = entry.label
                                     THEN [file |-> entry.csv_file,
                                           properties |-> entry.properties,
                                           unique_property |-> entry.unique_property]
                                     ELSE @[l]]]
                         ELSE tool_state
                  /\ tool_result' = IF load_outcome = "raise"
                                    THEN ProcessError("import_csv_nodes", args)
                                    ELSE [tool |-> "import_csv_nodes", args |-> args,
                                          status |-> load_outcome, raised |-> FALSE]
                  /\ UNCHANGED store_rels

\* The Cypher statement create_relationships_tool builds for one config
ConfigPairs(ns, config) ==
    MatchingPairs(ns, config.from_label, config.match_property,
                  config.to_label, config.match_property)

\* The loop of create_relationships_tool over relationship_configs, from
\* config i on: the relationships in the store, the `results` list, the
\* `relationships_created` dict, and whether send_query raised
RECURSIVE RunConfigs(_, _, _, _, _, _)
RunConfigs(ns, rs, configs, outcomes, i, acc) ==
    IF i > Len(configs) THEN [rels |-> rs, results |-> acc.results,
                              created |-> acc.created, raised |-> FALSE, issued |-> i - 1]
    ELSE LET config == configs[i]
             pairs == ConfigPairs(ns, config)
             count == Cardinality(pairs)
         IN IF outcomes[i] = "raise"
            THEN [rels |-> rs, results |-> acc.results, created |-> acc.created,
                  raised |-> TRUE, issued |-> i]
            ELSE IF outcomes[i] = "success"
                 THEN RunConfigs(ns, MergeRels(rs, config.relationship_type, pairs),
                                 configs, outcomes, i + 1,
                                 [results |-> Append(acc.results,
                                                     [relationship |-> config.relationship_type,
                                                      count |-> count, status |-> "success"]),
                                  created |-> [t \in DOMAIN acc.created
                                                         \cup {config.relationship_type} |->
                                                  IF t = config.relationship_type THEN count
                                                  ELSE acc.created[t]]])
                 ELSE RunConfigs(ns, rs, configs, outcomes, i + 1,
                                 [results |-> Append(acc.results,
                                                     [relationship |-> config.relationship_type,
                                                      status |-> "error"]),
                                  created |-> acc.created])

\* create_relationships_tool
CreateRelationshipsTool(configs, outcomes) ==
    LET args == [relationship_configs |-> configs]
        run == RunConfigs(store_nodes, store_rels, configs, outcomes, 1,
                          [results |-> <<>>, created |-> <<>>])
    IN /\ store_rels' = run.rels
       /\ tool_trace' = [k \in 1..run.issued |-> <<"send_query", outcomes[k]>>]
       /\ tool_state' = IF run.raised THEN tool_state
                        ELSE [tool_state EXCEPT !.relationships_created = run.created]
       /\ tool_result' = IF run.raised
                         THEN ProcessError("create_relationships", args)
                         ELSE [tool |-> "create_relationships", args |-> args,
                               status |-> "success", raised |-> FALSE,
                               relationship_results |-> run.results]
       /\ UNCHANGED <<store_nodes, store_constraints>>

MaxHops == 3
PathLimit == 10

\* A relationship traversed in one of its two directions
Steps(rs) ==
    { [rel |-> r, a |-> r.from, b |-> r.to] : r \in rs }
        \cup { [rel |-> r, a |-> r.to, b |-> r.from] : r \in rs }

\* The paths of k relationships, no relationship used twice
RECURSIVE PathsOfLength(_, _)
PathsOfLength(rs, k) ==
    IF k = 1 THEN { <<st>> : st \in Steps(rs) }
    ELSE UNION { { Append(path, st) :
                     st \in { x \in Steps(rs) :
                                /\ x.a = path[Len(path)].b
                                /\ \A i \in DOMAIN path : path[i].rel # x.rel } } :
                 path \in PathsOfLength(rs, k - 1) }

\* MATCH path = (a)-[*1..3]-(b) WHERE labels(a) <> labels(b)
ConnectedPaths(rs) ==
    { path \in UNION { PathsOfLength(rs, k) : k \in 1..MaxHops } :
        path[1].a.label # path[Len(path)].b.label }

Min(a, b) == IF a <= b THEN a ELSE b

\* count(n) per labels(n)[0]
NodeCounts(ns) ==
    [l \in { n.label : n \in ns } |-> Cardinality({ n \in ns : n.label = l })]

\* count(r) per type(r) over MATCH ()-[r]->()
RelCounts(rs) ==
    [t \in { r.type : r \in rs } |-> Cardinality({ r \in rs : r.type = t })]

RECURSIVE SumOver(_, _)
SumOver(f, keys) ==
    IF keys = {} THEN 0
    ELSE LET k == CHOOSE x \in keys : TRUE
         IN f[k] + SumOver(f, keys \ {k})

\* sum(item['count'] for item in query_result)
SumCounts(counts) == SumOver(counts, DOMAIN counts)

\* The health part of verify_graph_tool with the thresholds of the status swapped
GraphHealth_LowThreshold(total_nodes, total_relationships, connected_paths) ==
    LET health_score == (IF total_nodes > 0 THEN 40 ELSE 0)
                        + (IF total_relationships > 0 THEN 40 ELSE 0)
                        + (IF connected_paths > 0 THEN 20 ELSE 0)
        issues == (IF total_nodes > 0 THEN <<>> ELSE <<"No nodes found in graph">>)
                  \o (IF total_relationships > 0 THEN <<>>
                      ELSE <<"No relationships found in graph">>)
                  \o (IF connected_paths > 0 THEN <<>> ELSE <<"No connected paths found">>)
    IN [health_score |-> health_score,
        issues |-> issues,
        status |-> IF health_score > 80 THEN "healthy"
                   ELSE IF health_score >= 40 THEN "degraded"
                   ELSE "unhealthy"]

\* verify_graph_tool, "Determine graph health": score, issues and status
GraphHealth(total_nodes, total_relationships, connected_paths) ==
    LET health_score == (IF total_nodes > 0 THEN 40 ELSE 0)
                        + (IF total_relationships > 0 THEN 40 ELSE 0)
                        + (IF connected_paths > 0 THEN 20 ELSE 0)
        issues == (IF total_nodes > 0 THEN <<>> ELSE <<"No nodes found in graph">>)
                  \o (IF total_relationships > 0 THEN <<>>
                      ELSE <<"No relationships found in graph">>)
                  \o (IF connected_paths > 0 THEN <<>> ELSE <<"No connected paths found">>)
    IN [health_score |-> health_score,
        issues |-> issues,
        status |-> IF health_score >= 80 THEN "healthy"
                   ELSE IF health_score >= 40 THEN "degraded"
                   ELSE "unhealthy"]

\* verify_graph_tool, a query that is not answered making the tool fail
VerifyGraphTool_FailedQueryFails(node_outcome, rel_outcome, connected_outcome) ==
    LET args == <<>>
        node_counts == IF node_outcome = "success" THEN NodeCounts(store_nodes) ELSE <<>>
        rel_counts == IF rel_outcome = "success" THEN RelCounts(store_rels) ELSE <<>>
        connected_paths == IF connected_outcome = "success"
                           THEN Min(PathLimit, Cardinality(ConnectedPaths(store_rels)))
                           ELSE 0
        total_nodes == SumCounts(node_counts)
        total_relationships == SumCounts(rel_counts)
        health == GraphHealth(total_nodes, total_relationships, connected_paths)
        verification_results ==
            [present |-> TRUE,
             nodes |-> node_counts,
             total_nodes |-> total_nodes,
             relationships |-> rel_counts,
             total_relationships |-> total_relationships,
             connected_paths |-> connected_paths,
             health_score |-> health.health_score,
             issues |-> health.issues,
             status |-> health.status]
        queries == IF node_outcome = "raise" THEN 1
                   ELSE IF rel_outcome = "raise" THEN 2 ELSE 3
        raised == {node_outcome, rel_outcome, connected_outcome} # {"success"}
    IN /\ node_outcome = "raise" => (rel_outcome = "success" /\ connected_outcome = "success")
       /\ rel_outcome = "raise" => connected_outcome = "success"
       /\ tool_trace' = [k \in 1..queries |->
                             <<"send_query",
                               <<node_outcome, rel_outcome, connected_outcome>>[k]>>]
       /\ tool_state' = IF raised THEN tool_state
                        ELSE [tool_state EXCEPT !.graph_verification = verification_results]
       /\ tool_result' = IF raised
                         THEN ProcessError("verify_graph", args)
                         ELSE [tool |-> "verify_graph", args |-> args,
                               status |-> "success", raised |-> FALSE,
                               verification_results |-> verification_results]
       /\ UNCHANGED storeVars

\* verify_graph_tool
VerifyGraphTool(node_outcome, rel_outcome, connected_outcome) ==
    LET args == <<>>
        node_counts == IF node_outcome = "success" THEN NodeCounts(store_nodes) ELSE <<>>
        rel_counts == IF rel_outcome = "success" THEN RelCounts(store_rels) ELSE <<>>
        connected_paths == IF connected_outcome = "success"
                           THEN Min(PathLimit, Cardinality(ConnectedPaths(store_rels)))
                           ELSE 0
        total_nodes == SumCounts(node_counts)
        total_relationships == SumCounts(rel_counts)
        health == GraphHealth(total_nodes, total_relationships, connected_paths)
        verification_results ==
            [present |-> TRUE,
             nodes |-> node_counts,
             total_nodes |-> total_nodes,
             relationships |-> rel_counts,
             total_relationships |-> total_relationships,
             connected_paths |-> connected_paths,
             health_score |-> health.health_score,
             issues |-> health.issues,
             status |-> health.status]
        queries == IF node_outcome = "raise" THEN 1
                   ELSE IF rel_outcome = "raise" THEN 2 ELSE 3
        raised == "raise" \in {node_outcome, rel_outcome, connected_outcome}
    IN /\ node_outcome = "raise" => (rel_outcome = "success" /\ connected_outcome = "success")
       /\ rel_outcome = "raise" => connected_outcome = "success"
       /\ tool_trace' = [k \in 1..queries |->
                             <<"send_query",
                               <<node_outcome, rel_outcome, connected_outcome>>[k]>>]
       /\ tool_state' = IF raised THEN tool_state
                        ELSE [tool_state EXCEPT !.graph_verification = verification_results]
       /\ tool_result' = IF raised
                         THEN ProcessError("verify_graph", args)
                         ELSE [tool |-> "verify_graph", args |-> args,
                               status |-> "success", raised |-> FALSE,
                               verification_results |-> verification_results]
       /\ UNCHANGED storeVars

\* check_neo4j_ready_tool over utils.tools.neo4j_is_ready
CheckNeo4jReadyTool(outcome) ==
    LET args == <<>>
    IN /\ tool_trace' = << <<"neo4j_is_ready", outcome>> >>
       /\ tool_state' = IF outcome = "raise" THEN tool_state
                        ELSE [tool_state EXCEPT !.neo4j_ready = (outcome = "success")]
       /\ tool_result' = IF outcome = "raise"
                         THEN ProcessError("check_neo4j_ready", args)
                         ELSE [tool |-> "check_neo4j_ready", args |-> args,
                               status |-> outcome, raised |-> FALSE]
       /\ UNCHANGED storeVars

\* get_construction_stats_tool: the summary over tool_context.state
GetConstructionStatsTool ==
    LET args == <<>>
        stats == tool_state
        total_node_types == Cardinality(DOMAIN stats.nodes_imported)
        total_relationship_types == Cardinality(DOMAIN stats.relationships_created)
        total_relationships == SumCounts(stats.relationships_created)
        summary ==
            [construction_successful |-> stats.neo4j_ready /\ total_node_types > 0,
             total_node_types |-> total_node_types,
             total_relationship_types |-> total_relationship_types,
             total_relationships |-> total_relationships,
             graph_health |-> IF stats.graph_verification.present
                              THEN stats.graph_verification.status ELSE "unknown",
             detailed_stats |-> stats]
    IN /\ tool_trace' = <<>>
       /\ tool_result' = [tool |-> "get_construction_stats", args |-> args,
                          status |-> "success", raised |-> FALSE,
                          construction_stats |-> summary]
       /\ UNCHANGED <<storeVars, tool_state>>

\* One call of a tool of the constructor agent
ClearDatabase ==
    /\ \E confirm \in ConfirmArgs, outcome \in Outcomes : ClearDatabaseTool(confirm, outcome)
    /\ UNCHANGED <<sessionVars, schemaVars, scriptVars>>

CreateConstraint ==
    /\ \E i \in DOMAIN DefaultConstructionPlan, outcome \in Outcomes :
           CreateConstraintTool(DefaultConstructionPlan[i].label,
                                DefaultConstructionPlan[i].unique_property, outcome)
    /\ UNCHANGED <<sessionVars, schemaVars, scriptVars>>

ImportCsvNodes ==
    /\ \E i \in DOMAIN DefaultConstructionPlan, constraint_outcome, load_outcome \in Outcomes :
           \E df \in ToolFrames(DefaultConstructionPlan[i].csv_file) :
               ImportCsvNodesTool(DefaultConstructionPlan[i], df,
                                  constraint_outcome, load_outcome)
    /\ UNCHANGED <<sessionVars, schemaVars, scriptVars>>

\* The lists of at most MaxConfigs descriptors, none listed twice
ConfigLists ==
    { configs \in UNION { [1..n -> RelationshipConfigs] : n \in 0..MaxConfigs } :
        \A i, j \in DOMAIN configs : configs[i] = configs[j] => i = j }

CreateRelationships ==
    /\ \E configs \in ConfigLists :
           \E outcomes \in [DOMAIN configs -> Outcomes] :
               CreateRelationshipsTool(configs, outcomes)
    /\ UNCHANGED <<sessionVars, schemaVars, scriptVars>>

VerifyGraph ==
    /\ \E node_outcome, rel_outcome, connected_outcome \in Outcomes :
           VerifyGraphTool(node_outcome, rel_outcome, connected_outcome)
    /\ UNCHANGED <<sessionVars, schemaVars, scriptVars>>

(***************************************************************************)
(* construct_graph.py: GraphConstructor and main                           *)
(***************************************************************************)
BatchSize == 50
MaxRows == 130
MaxRuns == 2
MaxFaults == 1
PathSampleLimit == 3

\* GraphConstructor.construction_plan, in the order of the dict
ConstructionPlan ==
    << [file |-> "products.csv", label |-> "Product", unique_property |-> "product_id",
        properties |-> <<"product_name", "price", "description">>],
       [file |-> "assemblies.csv", label |-> "Assembly", unique_property |-> "assembly_id",
        properties |-> <<"assembly_name", "quantity", "product_id">>],
       [file |-> "parts.csv", label |-> "Part", unique_property |-> "part_id",
        properties |-> <<"part_name", "quantity", "assembly_id">>],
       [file |-> "suppliers.csv", label |-> "Supplier", unique_property |-> "supplier_id",
        properties |-> <<"name", "specialty", "city", "country", "website",
                         "contact_email">>] >>

\* What the csv files hold when they exist
DataFiles ==
    [Product |-> << [product_id |-> "P1", product_name |-> "chair"] >>,
     Assembly |-> << [assembly_id |-> "A1", product_id |-> "P1"] >>,
     Part |-> << [part_id |-> "T1", assembly_id |-> "A1"] >>,
     Supplier |-> << [supplier_id |-> "S2", name |-> "bolt"],
                     [supplier_id |-> "S1", name |-> "acme"] >>]

\* The data directories, by the files that load_csv_data can read (a file
\* that is missing and a file that pd.read_csv rejects are both left out of
\* csv_data): every file, no supplier file, no assembly file, no file at all
DataDirs ==
    { [l \in present |-> DataFiles[l]] :
        present \in { {"Product", "Assembly", "Part", "Supplier"},
                      {"Product", "Assembly", "Part"},
                      {"Product", "Part", "Supplier"},
                      {} } }

\* ORDER BY supplier.supplier_id over the ids of the supplier file
SupplierIdOrder == <<"S1", "S2">>

\* The frames a caller passes to create_nodes to import one entity once or
\* twice: rows with one primary key and an optional property that is
\* empty or has one of two values
UpsertRows ==
    { [product_id |-> "P1", product_name |-> name] : name \in {NaN, "chair", "stool"} }

UpsertFrames ==
    { <<r>> : r \in UpsertRows } \cup { <<r1, r2>> : r1 \in UpsertRows, r2 \in UpsertRows }

\* The frames a caller passes to create_nodes to have batches made: n rows
\* with distinct primary keys, and the rows before `empty` with no value in
\* any column of the plan
BatchFrame(n, empty) ==
    [k \in 1..n |-> [product_id |-> IF k <= empty THEN NaN ELSE ToString(k),
                     product_name |-> NaN,
                     note |-> "x"]]

\* The frames a caller passes to create_nodes to import records that lack
\* values: one or two rows out of a row with no primary key, a row with no
\* value at all and a row with both values
NullKeyRows ==
    { [product_id |-> NaN, product_name |-> "chair"],
      [product_id |-> NaN, product_name |-> NaN],
      [product_id |-> "P1", product_name |-> "chair"] }

NullKeyFrames ==
    { <<r>> : r \in NullKeyRows } \cup { <<r1, r2>> : r1 \in NullKeyRows, r2 \in NullKeyRows }

\* The row counts that fill a batch or overflow it by one, up to MaxRows
RowCounts ==
    { n \in 0..MaxRows : n = MaxRows \/ n % BatchSize \in {0, 1} }

BatchFrames ==
    { BatchFrame(n, empty) : n \in RowCounts, empty \in {0, 1, BatchSize} }

NoCall == [state |-> "none"]
NoConstruction == [state |-> "none"]

\* A statement sent to the store: what it is, the label or type it is
\* about, its MERGE clauses, whether the result had status 'success', and
\* whether send_query raised an exception
Statement(kind, about, size, outcome) ==
    [kind |-> kind, about |-> about, size |-> size, ok |-> outcome = "success",
     raised |-> outcome = "raise"]

\* A statement that the store can carry out either succeeds or meets one
\* of the MaxFaults failures of the store; one that it cannot carry out
\* fails
Fault(outcome, feasible) == IF feasible /\ outcome # "success" THEN 1 ELSE 0

Allowed(outcome, feasible) ==
    /\ feasible \/ outcome # "success"
    /\ faults + Fault(outcome, feasible) <= MaxFaults

\* clear_existing: bool = True
ClearExisting(clear_existing) ==
    IF clear_existing = "omitted" THEN TRUE ELSE clear_existing = "True"

\* GraphConstructor.create_constraint: the constraint statement
CreateConstraintQuery(cs, label, property_key, outcome) ==
    IF outcome = "success"
    THEN cs \cup {[label |-> label, property |-> property_key]}
    ELSE cs

\* df.iloc[i:i+batch_size]
Batch(df, i) == SubSeq(df, i + 1, Min(i + BatchSize, Len(df)))

\* nodes_created after a batch, counting every outcome as created
NodesCreated_AnyOutcome(nodes_created, merge_statements, outcome) ==
    nodes_created + Len(merge_statements)

\* nodes_created after a batch
NodesCreated(nodes_created, merge_statements, outcome) ==
    IF outcome = "success" THEN nodes_created + Len(merge_statements) ELSE nodes_created

NodesOf(ns, label) == { n \in ns : n.label = label }

\* The suppliers that can come first in ORDER BY supplier.supplier_id: the
\* ones with the least id, or any of them when none has an id
FirstSuppliers(ns) ==
    LET suppliers == NodesOf(ns, "Supplier")
        with_id == { n \in suppliers : "supplier_id" \in DOMAIN n.props }
    IN IF with_id = {} THEN suppliers
       ELSE { n \in with_id :
                \A o \in with_id : IndexIn(n.props.supplier_id, SupplierIdOrder)
                                       <= IndexIn(o.props.supplier_id, SupplierIdOrder) }

\* The three statements of create_relationships: type and matched rows
RelationshipTypes == <<"CONTAINS", "IS_PART_OF", "SUPPLIED_BY">>

RelationshipRows(ns, k, supplier) ==
    IF k = 1 THEN MatchingPairs(ns, "Product", "product_id", "Assembly", "product_id")
    ELSE IF k = 2 THEN MatchingPairs(ns, "Part", "assembly_id", "Assembly", "assembly_id")
    ELSE { <<part, s>> : part \in NodesOf(ns, "Part"), s \in supplier }

\* MATCH (p:Product)-[:CONTAINS]->(a:Assembly)<-[:IS_PART_OF]-(part:Part)
\*       -[:SUPPLIED_BY]->(s:Supplier)
CompletePaths(rs) ==
    { path \in rs \X rs \X rs :
        /\ path[1].type = "CONTAINS" /\ path[2].type = "IS_PART_OF"
        /\ path[3].type = "SUPPLIED_BY"
        /\ path[1].from.label = "Product" /\ path[1].to.label = "Assembly"
        /\ path[2].to = path[1].to /\ path[2].from.label = "Part"
        /\ path[3].from = path[2].from /\ path[3].to.label = "Supplier" }

\* count(r) per type(r) over MATCH ()-[r]-(): a relationship matches once
\* in each direction, a loop once
UndirectedRelCounts(rs) ==
    [t \in { r.type : r \in rs } |->
        Cardinality({ r \in rs : r.type = t })
            + Cardinality({ r \in rs : r.type = t /\ r.from # r.to })]

\* The verification of a run that did not get to verify_graph
NoTotals == [total_nodes |-> 0, total_relationships |-> 0, connected_paths |-> 0]

\* What is kept of a construction run that has returned; `issues` is the
\* number of points that the final summary lists under "Graph construction
\* incomplete!"
RunRecord(result, completed, clear_existing, log, ns, rs, issues, verification) ==
    [result |-> result,
     completed |-> completed,
     issues |-> issues,
     verification |-> verification,
     clear_existing |-> clear_existing,
     clean |-> \A k \in DOMAIN log :
                   log[k].kind \in {"batch", "relationship"} => log[k].ok,
     nodes |-> NodeCounts(ns),
     rels |-> RelCounts(rs)]

NewConstruction(clear_existing) ==
    [state |-> "running", clear_existing |-> clear_existing, csv_data |-> <<>>,
     plan_idx |-> 1, total_nodes_created |-> 0, rel_idx |-> 1,
     relationships_created |-> <<>>]

\* main: the connection test, then construct_complete_graph(clear_existing=True)
Main ==
    /\ pc = "idle"
    /\ Len(history) < MaxRuns
    /\ \E outcome \in Outcomes :
           /\ Allowed(outcome, TRUE)
           /\ faults' = faults + Fault(outcome, TRUE)
           /\ sent' = << Statement("test", "", 0, outcome) >>
           /\ IF outcome = "success"
              THEN /\ construction' = NewConstruction("True")
                   /\ pc' = "clear"
                   /\ UNCHANGED history
              ELSE /\ construction' = NoConstruction
                   /\ pc' = "idle"
                   /\ history' = Append(history,
                                        RunRecord(FALSE, FALSE, "none", sent',
                                                  store_nodes, store_rels, 0, NoTotals))
    /\ call' = NoCall
    /\ UNCHANGED <<sessionVars, schemaVars, storeVars, agentVars, data_files, frames, upserted>>

\* A caller of GraphConstructor.construct_complete_graph
CallConstructCompleteGraph ==
    /\ pc = "idle"
    /\ Len(history) < MaxRuns
    /\ \E clear_existing \in ConfirmArgs : construction' = NewConstruction(clear_existing)
    /\ pc' = "clear"
    /\ sent' = <<>>
    /\ call' = NoCall
    /\ UNCHANGED <<sessionVars, schemaVars, storeVars, agentVars, data_files, frames, history,
                   upserted, faults>>

\* construct_complete_graph, "Clear existing graph if requested"
ClearExistingGraph ==
    /\ pc = "clear"
    /\ IF ClearExisting(construction.clear_existing)
       THEN \E outcome \in Outcomes :
                /\ Allowed(outcome, TRUE)
                /\ faults' = faults + Fault(outcome, TRUE)
                /\ sent' = Append(sent, Statement("clear", "", 0, outcome))
                /\ store_nodes' = IF outcome = "success" THEN {} ELSE store_nodes
                /\ store_rels' = IF outcome = "success" THEN {} ELSE store_rels
                /\ IF outcome = "raise"
                   THEN /\ pc' = "idle"
                        /\ construction' = NoConstruction
                        /\ history' = Append(history,
                                             RunRecord(FALSE, FALSE,
                                                       construction.clear_existing, sent',
                                                       store_nodes', store_rels', 0, NoTotals))
                   ELSE /\ pc' = "load"
                        /\ UNCHANGED <<construction, history>>
       ELSE /\ pc' = "load"
            /\ UNCHANGED <<store_nodes, store_rels, sent, faults, construction, history>>
    /\ UNCHANGED <<sessionVars, schemaVars, store_constraints, agentVars, data_files, frames, call,
                   upserted>>

\* construct_complete_graph, "Load CSV data", giving up when any file of the
\* plan could not be read
LoadCsvData_AllOrNothing ==
    /\ pc = "load"
    /\ IF DOMAIN data_files # { ConstructionPlan[i].label : i \in DOMAIN ConstructionPlan }
       THEN /\ pc' = "idle"
            /\ construction' = NoConstruction
            /\ history' = Append(history,
                                 RunRecord(FALSE, FALSE, construction.clear_existing, sent,
                                           store_nodes, store_rels, 0, NoTotals))
       ELSE /\ pc' = "nodes"
            /\ construction' = [construction EXCEPT !.csv_data = data_files]
            /\ UNCHANGED history
    /\ UNCHANGED <<sessionVars, schemaVars, storeVars, agentVars, data_files, frames, call, sent,
                   upserted, faults>>

\* construct_complete_graph, "Load CSV data", going on with whatever was
\* loaded
LoadCsvData_NoTest ==
    /\ pc = "load"
    /\ pc' = "nodes"
    /\ construction' = [construction EXCEPT !.csv_data = data_files]
    /\ UNCHANGED <<sessionVars, schemaVars, storeVars, agentVars, data_files, frames, call, sent,
                   history, upserted, faults>>

\* construct_complete_graph, "Load CSV data": load_csv_data and the test
\* that something was loaded
LoadCsvData ==
    /\ pc = "load"
    /\ IF DOMAIN data_files = {}
       THEN /\ pc' = "idle"
            /\ construction' = NoConstruction
            /\ history' = Append(history,
                                 RunRecord(FALSE, FALSE, construction.clear_existing, sent,
                                           store_nodes, store_rels, 0, NoTotals))
       ELSE /\ pc' = "nodes"
            /\ construction' = [construction EXCEPT !.csv_data = data_files]
            /\ UNCHANGED history
    /\ UNCHANGED <<sessionVars, schemaVars, storeVars, agentVars, data_files, frames, call, sent,
                   upserted, faults>>

\* construct_complete_graph, "Create all nodes" with the relationships left
\* out after the last node type
CreateAllNodes_SkipRelationships ==
    /\ pc = "nodes"
    /\ IF construction.plan_idx > Len(ConstructionPlan)
       THEN /\ pc' = "verify"
            /\ UNCHANGED <<call, construction>>
       ELSE LET config == ConstructionPlan[construction.plan_idx]
            IN IF config.label \in DOMAIN construction.csv_data
               THEN /\ call' = [state |-> "running",
                                df |-> construction.csv_data[config.label],
                                label |-> config.label,
                                unique_property |-> config.unique_property,
                                properties |-> config.properties,
                                i |-> 0, nodes_created |-> 0, in_construction |-> TRUE]
                    /\ pc' = "create_constraint"
                    /\ UNCHANGED construction
               ELSE /\ construction' = [construction EXCEPT !.plan_idx = @ + 1]
                    /\ UNCHANGED <<pc, call>>
    /\ UNCHANGED <<sessionVars, schemaVars, storeVars, agentVars, data_files, frames, sent, history,
                   upserted, faults>>

\* construct_complete_graph, "Create all nodes": the loop over the plan,
\* calling create_nodes for a node type that has data, and leaving for
\* create_relationships after the last
CreateAllNodes ==
    /\ pc = "nodes"
    /\ IF construction.plan_idx > Len(ConstructionPlan)
       THEN /\ pc' = "relationships"
            /\ UNCHANGED <<call, construction>>
       ELSE LET config == ConstructionPlan[construction.plan_idx]
            IN IF config.label \in DOMAIN construction.csv_data
               THEN /\ call' = [state |-> "running",
                                df |-> construction.csv_data[config.label],
                                label |-> config.label,
                                unique_property |-> config.unique_property,
                                properties |-> config.properties,
                                i |-> 0, nodes_created |-> 0, in_construction |-> TRUE]
                    /\ pc' = "create_constraint"
                    /\ UNCHANGED construction
               ELSE /\ construction' = [construction EXCEPT !.plan_idx = @ + 1]
                    /\ UNCHANGED <<pc, call>>
    /\ UNCHANGED <<sessionVars, schemaVars, storeVars, agentVars, data_files, frames, sent, history,
                   upserted, faults>>

\* A caller of GraphConstructor.create_nodes with the plan's first entry
CallCreateNodes ==
    /\ pc = "idle"
    /\ \E df \in frames :
           call' = [state |-> "running", df |-> df,
                    label |-> ConstructionPlan[1].label,
                    unique_property |-> ConstructionPlan[1].unique_property,
                    properties |-> ConstructionPlan[1].properties,
                    i |-> 0, nodes_created |-> 0, in_construction |-> FALSE]
    /\ pc' = "create_constraint"
    /\ sent' = <<>>
    /\ UNCHANGED <<sessionVars, schemaVars, storeVars, agentVars, data_files, frames, construction,
                   history, upserted, faults>>

\* create_nodes, "Create constraint": create_constraint and the warning
CreateNodesConstraint ==
    /\ pc = "create_constraint"
    /\ \E outcome \in Outcomes :
           LET feasible == ConstraintCreatable(store_nodes, store_constraints,
                                               call.label, call.unique_property)
           IN /\ Allowed(outcome, feasible)
              /\ faults' = faults + Fault(outcome, feasible)
              /\ store_constraints' = CreateConstraintQuery(store_constraints, call.label,
                                                            call.unique_property, outcome)
              /\ sent' = Append(sent, Statement("constraint", call.label, 0, outcome))
    /\ pc' = "batch"
    /\ UNCHANGED <<sessionVars, schemaVars, store_nodes, store_rels, agentVars, data_files, frames,
                   construction, call, history, upserted>>

\* create_nodes, one turn of the loop over the batches
CreateNodesBatch ==
    /\ pc = "batch"
    /\ call.i < Len(call.df)
    /\ LET merge_statements == MergeStatements(Batch(call.df, call.i), call.unique_property,
                                               call.properties)
       IN IF merge_statements = <<>>
          THEN /\ call' = [call EXCEPT !.i = @ + BatchSize]
               /\ UNCHANGED <<store_nodes, sent, upserted, faults>>
          ELSE LET merged == MergeNodes(store_nodes, store_constraints, call.label,
                                        merge_statements)
               IN \E outcome \in Outcomes :
                      /\ Allowed(outcome, merged.ok)
                      /\ faults' = faults + Fault(outcome, merged.ok)
                      /\ store_nodes' = IF outcome = "success" THEN merged.nodes
                                        ELSE store_nodes
                      /\ call' = [call EXCEPT
                                    !.i = @ + BatchSize,
                                    !.nodes_created = NodesCreated(@, merge_statements,
                                                                   outcome)]
                      /\ sent' = Append(sent, Statement("batch", call.label,
                                                        Len(merge_statements), outcome))
                      /\ upserted' = IF outcome = "success"
                                     THEN upserted \cup Range(merge_statements)
                                     ELSE upserted
    /\ UNCHANGED <<sessionVars, schemaVars, store_rels, store_constraints, agentVars, data_files, frames,
                   pc, construction, history>>

\* create_nodes returning nodes_created, to construct_complete_graph or to
\* the caller
CreateNodesReturn ==
    /\ pc = "batch"
    /\ call.i >= Len(call.df)
    /\ IF call.in_construction
       THEN /\ construction' = [construction EXCEPT
                                  !.total_nodes_created = @ + call.nodes_created,
                                  !.plan_idx = @ + 1]
            /\ call' = NoCall
            /\ pc' = "nodes"
       ELSE /\ call' = [call EXCEPT !.state = "returned"]
            /\ pc' = "idle"
            /\ UNCHANGED construction
    /\ UNCHANGED <<sessionVars, schemaVars, storeVars, agentVars, data_files, frames, sent, history,
                   upserted, faults>>

\* create_relationships, one of its three statements
GraphConstructorCreateRelationships ==
    /\ pc = "relationships"
    /\ LET k == construction.rel_idx
           type == RelationshipTypes[k]
       IN \E outcome \in Outcomes :
              \E supplier \in IF k = 3 /\ FirstSuppliers(store_nodes) # {}
                              THEN { {s} : s \in FirstSuppliers(store_nodes) }
                              ELSE { {} } :
                  LET rows == RelationshipRows(store_nodes, k, supplier)
                  IN /\ Allowed(outcome, TRUE)
                     /\ faults' = faults + Fault(outcome, TRUE)
                     /\ store_rels' = IF outcome = "success"
                                      THEN MergeRels(store_rels, type, rows)
                                      ELSE store_rels
                     /\ sent' = Append(sent, Statement("relationship", type,
                                                       Cardinality(rows), outcome))
                     /\ construction' =
                            [construction EXCEPT
                               !.rel_idx = @ + 1,
                               !.relationships_created =
                                   IF outcome = "success"
                                   THEN [t \in DOMAIN @ \cup {type} |->
                                            IF t = type THEN Cardinality(rows) ELSE @[t]]
                                   ELSE @]
                     /\ pc' = IF k = Len(RelationshipTypes) THEN "verify"
                              ELSE "relationships"
    /\ UNCHANGED <<sessionVars, schemaVars, store_nodes, store_constraints, agentVars, data_files, frames,
                   call, history, upserted>>

\* verify_graph and the final summary of construct_complete_graph
GraphConstructorVerifyGraph ==
    /\ pc = "verify"
    /\ \E node_outcome, rel_outcome, path_outcome \in Outcomes :
           LET failures == Fault(node_outcome, TRUE) + Fault(rel_outcome, TRUE)
                           + Fault(path_outcome, TRUE)
               total_nodes == IF node_outcome = "success"
                              THEN SumCounts(NodeCounts(store_nodes)) ELSE 0
               total_relationships == IF rel_outcome = "success"
                                      THEN SumCounts(UndirectedRelCounts(store_rels))
                                      ELSE 0
               connected_paths == IF path_outcome = "success"
                                  THEN Min(PathSampleLimit,
                                           Cardinality(CompletePaths(store_rels)))
                                  ELSE 0
               success == total_nodes > 0 /\ total_relationships > 0 /\ connected_paths > 0
               issues == (IF total_nodes = 0 THEN 1 ELSE 0)
                         + (IF total_relationships = 0 THEN 1 ELSE 0)
                         + (IF connected_paths = 0 THEN 1 ELSE 0)
           IN /\ faults + failures <= MaxFaults
              /\ faults' = faults + failures
              /\ sent' = sent \o << Statement("verify", "nodes", 0, node_outcome),
                                    Statement("verify", "relationships", 0, rel_outcome),
                                    Statement("verify", "paths", 0, path_outcome) >>
              /\ history' = Append(history,
                                   RunRecord(success, TRUE, construction.clear_existing,
                                             sent', store_nodes, store_rels, issues,
                                             [total_nodes |-> total_nodes,
                                              total_relationships |-> total_relationships,
                                              connected_paths |-> connected_paths]))
    /\ pc' = "idle"
    /\ construction' = NoConstruction
    /\ UNCHANGED <<sessionVars, schemaVars, storeVars, agentVars, data_files, frames, call, upserted>>

(***************************************************************************)
(* session_manager.py: Session and SessionManager                          *)
(***************************************************************************)
DefaultSessionTimeout == 3600
MaxSessions == 2
MaxClock == 4
MaxTasks == 3

\* The values of system.session_timeout the configuration can give, in
\* seconds
SessionTimeouts == {60, 119, 120}

UserIds == {"u1"}
TaskIds == {"t1", "t2"}

\* The ids a caller can pass: the ids create_session has returned or will
\* return, and 0, which it never returns
SessionIds == 0..MaxSessions

NoSessionCall == [op |-> "none", session_id |-> 0, value |-> "none", calls |-> <<>>]

\* current_task = None
NoTask == [task_id |-> "", status |-> "none"]

\* Session.__init__
NewSession(session_id, user_id, t) ==
    [session_id |-> session_id,
     user_id |-> user_id,
     last_activity |-> t,
     is_active |-> TRUE,
     current_task |-> NoTask,
     completed_tasks |-> <<>>]

\* Session.is_expired with the comparison turned round
IsExpired_Never(session, timeout_minutes) ==
    session.last_activity - now > timeout_minutes

\* Session.is_expired
IsExpired(session, timeout_minutes) ==
    now - session.last_activity > timeout_minutes

\* self.session_timeout // 60
TimeoutMinutes == session_timeout \div 60

\* Session.to_dict
ToDict(session) ==
    [session_id |-> session.session_id,
     user_id |-> session.user_id,
     last_activity |-> session.last_activity,
     is_active |-> session.is_active,
     current_task |-> session.current_task,
     completed_tasks |-> session.completed_tasks]

\* A storage directory in which no file can be written
Unwritable == [id \in {0} |-> "unwritable"]

Writable(stored) == stored # Unwritable

\* SessionManager._persist_session: the file is written, or the failure is
\* logged and the file stays as it was
PersistSession(stored, session) ==
    IF Writable(stored)
    THEN [id \in DOMAIN stored \cup {session.session_id} |->
             IF id = session.session_id THEN ToDict(session) ELSE stored[id]]
    ELSE stored

\* SessionManager.close_session on the sessions of `ids`
CloseSessions(ids) ==
    LET closing == ids \cap sessions
        written == IF Writable(session_files) THEN closing ELSE {}
        objects == [id \in DOMAIN session_objects |->
                       IF id \in closing
                       THEN [session_objects[id] EXCEPT !.is_active = FALSE]
                       ELSE session_objects[id]]
    IN [objects |-> objects,
        sessions |-> sessions \ closing,
        stored |-> [id \in DOMAIN session_files \cup written |->
                      IF id \in written THEN ToDict(objects[id])
                      ELSE session_files[id]]]

\* Session.start_task
StartTaskOf(session, task_id) ==
    [session EXCEPT !.current_task = [task_id |-> task_id, status |-> "in_progress"],
                    !.last_activity = now]

\* Session.complete_task and Session.fail_task recording the task whether
\* or not there is one
FinishTaskOf_Unguarded(session, status) ==
    [session EXCEPT !.completed_tasks = Append(@, [session.current_task EXCEPT
                                                     !.status = status]),
                    !.current_task = NoTask,
                    !.last_activity = now]

\* Session.complete_task and Session.fail_task
FinishTaskOf(session, status) ==
    IF session.current_task # NoTask
    THEN [session EXCEPT !.completed_tasks = Append(@, [session.current_task EXCEPT
                                                          !.status = status]),
                         !.current_task = NoTask,
                         !.last_activity = now]
    ELSE session

OtherIdle == <<schemaVars, storeVars, agentVars, scriptVars>>

\* SessionManager.create_session
CreateSession ==
    /\ Cardinality(DOMAIN session_objects) < MaxSessions
    /\ \E user_id \in UserIds :
           LET session_id == Cardinality(DOMAIN session_objects) + 1
               session == NewSession(session_id, user_id, now)
           IN /\ session_objects' = [id \in DOMAIN session_objects \cup {session_id} |->
                                        IF id = session_id THEN session
                                        ELSE session_objects[id]]
              /\ sessions' = sessions \cup {session_id}
              /\ session_files' = PersistSession(session_files, session)
              /\ session_result' = [op |-> "create_session", session_id |-> session_id,
                                    value |-> "session_id", calls |-> <<>>]
    /\ UNCHANGED <<OtherIdle, session_timeout, now, task_starts>>

\* SessionManager.get_session
GetSession ==
    /\ \E session_id \in SessionIds :
           IF session_id \in sessions
           THEN IF IsExpired(session_objects[session_id], TimeoutMinutes)
                THEN LET closed == CloseSessions({session_id})
                     IN /\ session_objects' = closed.objects
                        /\ sessions' = closed.sessions
                        /\ session_files' = closed.stored
                        /\ session_result' = [op |-> "get_session",
                                              session_id |-> session_id,
                                              value |-> "None",
                                              calls |-> <<"close_session">>]
                ELSE LET session == [session_objects[session_id] EXCEPT
                                       !.last_activity = now]
                     IN /\ session_objects' = [session_objects EXCEPT
                                                 ![session_id] = session]
                        /\ session_files' = PersistSession(session_files, session)
                        /\ session_result' = [op |-> "get_session",
                                              session_id |-> session_id,
                                              value |-> "Session", calls |-> <<>>]
                        /\ UNCHANGED sessions
           ELSE /\ session_result' = [op |-> "get_session", session_id |-> session_id,
                                      value |-> "None", calls |-> <<>>]
                /\ UNCHANGED <<session_objects, sessions, session_files>>
    /\ UNCHANGED <<OtherIdle, session_timeout, now, task_starts>>

\* SessionManager.close_session
CloseSession ==
    /\ \E session_id \in SessionIds :
           LET closed == CloseSessions({session_id})
           IN /\ session_objects' = closed.objects
              /\ sessions' = closed.sessions
              /\ session_files' = closed.stored
              /\ session_result' = [op |-> "close_session", session_id |-> session_id,
                                    value |-> "None", calls |-> <<>>]
    /\ UNCHANGED <<OtherIdle, session_timeout, now, task_starts>>

\* SessionManager.cleanup_expired_sessions
CleanupExpiredSessions ==
    /\ LET expired_sessions == { id \in sessions :
                                   IsExpired(session_objects[id], TimeoutMinutes) }
           closed == CloseSessions(expired_sessions)
       IN /\ session_objects' = closed.objects
          /\ sessions' = closed.sessions
          /\ session_files' = closed.stored
          /\ session_result' = [op |-> "cleanup_expired_sessions", session_id |-> 0,
                                value |-> "None",
                                calls |-> [k \in 1..Cardinality(expired_sessions) |->
                                              "close_session"]]
    /\ UNCHANGED <<OtherIdle, session_timeout, now, task_starts>>

\* A minute passes
Tick ==
    /\ now < MaxClock
    /\ now' = now + 1
    /\ UNCHANGED <<OtherIdle, session_objects, sessions, session_files, session_timeout,
                   session_result, task_starts>>

\* Session.start_task on a Session object a caller holds
StartTask ==
    /\ \E session_id \in DOMAIN session_objects, task_id \in TaskIds :
           /\ task_starts[session_id] < MaxTasks
           /\ session_objects' = [session_objects EXCEPT
                                    ![session_id] = StartTaskOf(@, task_id)]
           /\ task_starts' = [task_starts EXCEPT ![session_id] = @ + 1]
           /\ session_result' = [op |-> "start_task", session_id |-> session_id,
                                 value |-> "None", calls |-> <<>>]
    /\ UNCHANGED <<OtherIdle, sessions, session_files, session_timeout, now>>

\* Session.complete_task on a Session object a caller holds
CompleteTask ==
    /\ \E session_id \in DOMAIN session_objects :
           /\ session_objects' = [session_objects EXCEPT
                                    ![session_id] = FinishTaskOf(@, "completed")]
           /\ session_result' = [op |-> "complete_task", session_id |-> session_id,
                                 value |-> "None", calls |-> <<>>]
    /\ UNCHANGED <<OtherIdle, sessions, session_files, session_timeout, now, task_starts>>

\* Session.fail_task on a Session object a caller holds
FailTask ==
    /\ \E session_id \in DOMAIN session_objects :
           /\ session_objects' = [session_objects EXCEPT
                                    ![session_id] = FinishTaskOf(@, "failed")]
           /\ session_result' = [op |-> "fail_task", session_id |-> session_id,
                                 value |-> "None", calls |-> <<>>]
    /\ UNCHANGED <<OtherIdle, sessions, session_files, session_timeout, now, task_starts>>

(***************************************************************************)
(* user_intent_agent.py: the goal tools                                    *)
(***************************************************************************)
Whitespace == {" "}

Str_bom == <<"b","o","m">>
Str_Domain_padded == <<" ","D","o","m","a","i","n"," ">>
Str_kg == <<"k","g">>
Str_map_padded == <<" ","m","a","p">>
Str_blank == <<" ">>

\* str.strip()
Strip(s) ==
    LET inked == { i \in DOMAIN s : s[i] \notin Whitespace }
    IN IF inked = {} THEN <<>>
       ELSE SubSeq(s, CHOOSE i \in inked : \A j \in inked : i <= j,
                      CHOOSE i \in inked : \A j \in inked : j <= i)

\* The texts a caller passes as goal_description and as graph_type
GoalDescriptions == {<<>>, Str_blank, Str_bom, Str_map_padded}
GraphTypes == {<<>>, Str_blank, Str_Domain_padded, Str_kg}

\* BaseAgent.__init__ of the user intent agent: agent_name and session_id
IntentAgentName == "user_intent"
IntentSessionId == "None"

\* tool_context.state and self.state of the user intent agent when no tool
\* has been called
InitialIntentState == [state |-> <<>>, agent_state |-> <<>>]

\* d[key] = value
SetKey(d, key, value) ==
    [k \in DOMAIN d \cup {key} |-> IF k = key THEN value ELSE d[k]]

\* set_perceived_user_goal
SetPerceivedUserGoalTool(goal_description, graph_type) ==
    LET args == <<goal_description, graph_type>>
        user_goal == [description |-> Strip(goal_description),
                      graph_type |-> Lower(Strip(graph_type)),
                      status |-> "perceived",
                      agent |-> IntentAgentName,
                      session_id |-> IntentSessionId]
    IN IF goal_description = <<>> \/ Strip(goal_description) = <<>>
       THEN /\ tool_result' = [tool |-> "set_perceived_user_goal", args |-> args,
                               status |-> "error",
                               error_message |-> "Goal description cannot be empty"]
            /\ tool_trace' = <<>>
            /\ UNCHANGED tool_state
       ELSE IF graph_type = <<>> \/ Strip(graph_type) = <<>>
       THEN /\ tool_result' = [tool |-> "set_perceived_user_goal", args |-> args,
                               status |-> "error",
                               error_message |-> "Graph type cannot be empty"]
            /\ tool_trace' = <<>>
            /\ UNCHANGED tool_state
       ELSE /\ tool_state' = [state |-> SetKey(tool_state.state, "perceived_user_goal",
                                               user_goal),
                              agent_state |-> SetKey(tool_state.agent_state,
                                                     "perceived_user_goal", user_goal)]
            /\ tool_trace' = << <<"update_state", "perceived_user_goal">> >>
            /\ tool_result' = [tool |-> "set_perceived_user_goal", args |-> args,
                               status |-> "success", user_goal |-> user_goal]

\* approve_perceived_user_goal approving whatever the state holds
ApprovePerceivedUserGoalTool_Unchecked ==
    LET perceived_goal == IF "perceived_user_goal" \in DOMAIN tool_state.state
                          THEN tool_state.state.perceived_user_goal
                          ELSE <<>>
        approved_goal == SetKey(SetKey(perceived_goal, "status", "approved"),
                                "approved_by", IntentAgentName)
    IN /\ tool_state' = [state |-> SetKey(tool_state.state, "approved_user_goal",
                                          approved_goal),
                         agent_state |-> SetKey(tool_state.agent_state,
                                                "approved_user_goal", approved_goal)]
       /\ tool_trace' = << <<"update_state", "approved_user_goal">> >>
       /\ tool_result' = [tool |-> "approve_perceived_user_goal", args |-> <<>>,
                          status |-> "success", approved_user_goal |-> approved_goal]

\* approve_perceived_user_goal
ApprovePerceivedUserGoalTool ==
    IF "perceived_user_goal" \notin DOMAIN tool_state.state
    THEN /\ tool_result' = [tool |-> "approve_perceived_user_goal", args |-> <<>>,
                            status |-> "error",
                            error_message |-> "No perceived user goal found"]
         /\ tool_trace' = <<>>
         /\ UNCHANGED tool_state
    ELSE LET perceived_goal == tool_state.state.perceived_user_goal
             approved_goal == SetKey(SetKey(perceived_goal, "status", "approved"),
                                     "approved_by", IntentAgentName)
         IN /\ tool_state' = [state |-> SetKey(tool_state.state, "approved_user_goal",
                                               approved_goal),
                              agent_state |-> SetKey(tool_state.agent_state,
                                                     "approved_user_goal", approved_goal)]
            /\ tool_trace' = << <<"update_state", "approved_user_goal">> >>
            /\ tool_result' = [tool |-> "approve_perceived_user_goal", args |-> <<>>,
                               status |-> "success",
                               approved_user_goal |-> approved_goal]

\* get_perceived_user_goal and get_approved_user_goal
GetUserGoalTool(tool, key) ==
    /\ tool_result' = IF key \in DOMAIN tool_state.state
                      THEN [tool |-> tool, args |-> <<>>, status |-> "success",
                            goal |-> tool_state.state[key]]
                      ELSE [tool |-> tool, args |-> <<>>, status |-> "error",
                            error_message |-> "No user goal found"]
    /\ tool_trace' = <<>>
    /\ UNCHANGED tool_state

IntentIdle == <<sessionVars, schemaVars, storeVars, scriptVars>>

SetPerceivedUserGoal ==
    /\ \E goal_description \in GoalDescriptions, graph_type \in GraphTypes :
           SetPerceivedUserGoalTool(goal_description, graph_type)
    /\ UNCHANGED IntentIdle

ApprovePerceivedUserGoal ==
    /\ ApprovePerceivedUserGoalTool
    /\ UNCHANGED IntentIdle

GetPerceivedUserGoal ==
    /\ GetUserGoalTool("get_perceived_user_goal", "perceived_user_goal")
    /\ UNCHANGED IntentIdle

GetApprovedUserGoal ==
    /\ GetUserGoalTool("get_approved_user_goal", "approved_user_goal")
    /\ UNCHANGED IntentIdle

(***************************************************************************)
(* Specifications                                                          *)
(***************************************************************************)
\* No SessionManager has been constructed
SessionsIdle ==
    /\ session_objects = <<>>
    /\ sessions = {}
    /\ session_files = <<>>
    /\ session_timeout = DefaultSessionTimeout
    /\ now = 0
    /\ session_result = NoSessionCall
    /\ task_starts = <<>>

StoreEmpty ==
    /\ store_nodes = {}
    /\ store_rels = {}
    /\ store_constraints = {}

AgentIdle ==
    /\ tool_state = InitialToolState
    /\ tool_result = NoResult
    /\ tool_trace = <<>>

SchemaIdle ==
    /\ files = <<>>
    /\ schema_proposal = NoProposal
    /\ schema_status = "none"

ScriptIdle ==
    /\ data_files = <<>>
    /\ frames = {}
    /\ pc = "idle"
    /\ construction = NoConstruction
    /\ call = NoCall
    /\ sent = <<>>
    /\ history = <<>>
    /\ upserted = {}
    /\ faults = 0

\* The schema proposal agent analysing one list of files
InitSchema ==
    /\ SessionsIdle
    /\ files \in FileLists
    /\ schema_proposal = NoProposal
    /\ schema_status = "none"
    /\ StoreEmpty
    /\ AgentIdle
    /\ ScriptIdle

NextSchema == AnalyzeStructuredData

SpecSchema == InitSchema /\ [][NextSchema]_vars

\* The node sets that imports of the plan's files leave in an empty store
ImportedStores(product_frames, assembly_frames) ==
    { LoadNodesFromCsv(
          LoadNodesFromCsv({}, {}, dfp, DefaultConstructionPlan[1].label,
                           DefaultConstructionPlan[1].unique_property,
                           DefaultConstructionPlan[1].properties).nodes,
          {}, dfa, DefaultConstructionPlan[2].label,
          DefaultConstructionPlan[2].unique_property,
          DefaultConstructionPlan[2].properties).nodes :
        dfp \in product_frames, dfa \in assembly_frames }

\* The constructor agent importing: clear, constraints and node imports
InitImport ==
    /\ SessionsIdle
    /\ SchemaIdle
    /\ StoreEmpty
    /\ AgentIdle
    /\ ScriptIdle

NextImport ==
    \/ ClearDatabase
    \/ CreateConstraint
    \/ ImportCsvNodes

SpecImport == InitImport /\ [][NextImport]_vars

\* The constructor agent creating relationships over imported nodes
InitRelationships ==
    /\ SessionsIdle
    /\ SchemaIdle
    /\ store_nodes \in ImportedStores({ df \in ToolFrames("products.csv") : Len(df) = 2 },
                                      ToolFrames("assemblies.csv"))
    /\ store_rels = {}
    /\ store_constraints = {}
    /\ AgentIdle
    /\ ScriptIdle

NextRelationships == CreateRelationships

SpecRelationships == InitRelationships /\ [][NextRelationships]_vars

\* The constructor agent verifying a graph that imports and relationship
\* creation have built
InitVerify ==
    /\ SessionsIdle
    /\ SchemaIdle
    /\ store_nodes \in ImportedStores(ToolFrames("products.csv") \cup {<<>>},
                                      ToolFrames("assemblies.csv") \cup {<<>>})
    /\ \E configs \in ConfigLists :
           store_rels = RunConfigs(store_nodes, {}, configs,
                                   [i \in DOMAIN configs |-> "success"], 1,
                                   [results |-> <<>>, created |-> <<>>]).rels
    /\ store_constraints = {}
    /\ AgentIdle
    /\ ScriptIdle

NextVerify == VerifyGraph

SpecVerify == InitVerify /\ [][NextVerify]_vars

\* The constructor agent going through the "Construction process" of its
\* system prompt, one tool call per step and one import per plan entry
ProcessIdle == <<data_files, frames, construction, call, sent, history, upserted, faults>>

ProcessCheckNeo4jReady ==
    /\ pc = "idle"
    /\ \E outcome \in Outcomes : CheckNeo4jReadyTool(outcome)
    /\ pc' = "process_clear"
    /\ UNCHANGED <<sessionVars, schemaVars, ProcessIdle>>

ProcessClearDatabase ==
    /\ pc = "process_clear"
    /\ \E confirm \in ConfirmArgs, outcome \in Outcomes : ClearDatabaseTool(confirm, outcome)
    /\ pc' = "process_constraints"
    /\ UNCHANGED <<sessionVars, schemaVars, ProcessIdle>>

ProcessCreateConstraint ==
    /\ pc = "process_constraints"
    /\ \E i \in DOMAIN DefaultConstructionPlan, outcome \in Outcomes :
           CreateConstraintTool(DefaultConstructionPlan[i].label,
                                DefaultConstructionPlan[i].unique_property, outcome)
    /\ pc' = "process_import"
    /\ UNCHANGED <<sessionVars, schemaVars, ProcessIdle>>

ProcessImportCsvNodes ==
    /\ pc \in {"process_import", "process_import_next"}
    /\ LET entry == DefaultConstructionPlan[IF pc = "process_import" THEN 1 ELSE 2]
       IN \E constraint_outcome, load_outcome \in Outcomes :
              \E df \in ToolFrames(entry.csv_file) :
                  ImportCsvNodesTool(entry, df, constraint_outcome, load_outcome)
    /\ pc' = IF pc = "process_import" THEN "process_import_next" ELSE "process_relationships"
    /\ UNCHANGED <<sessionVars, schemaVars, ProcessIdle>>

ProcessCreateRelationships ==
    /\ pc = "process_relationships"
    /\ \E configs \in ConfigLists :
           \E outcomes \in [DOMAIN configs -> Outcomes] :
               CreateRelationshipsTool(configs, outcomes)
    /\ pc' = "process_verify"
    /\ UNCHANGED <<sessionVars, schemaVars, ProcessIdle>>

ProcessVerifyGraph ==
    /\ pc = "process_verify"
    /\ \E node_outcome, rel_outcome, connected_outcome \in Outcomes :
           VerifyGraphTool(node_outcome, rel_outcome, connected_outcome)
    /\ pc' = "process_report"
    /\ UNCHANGED <<sessionVars, schemaVars, ProcessIdle>>

ProcessGetConstructionStats ==
    /\ pc = "process_report"
    /\ GetConstructionStatsTool
    /\ pc' = "process_done"
    /\ UNCHANGED <<sessionVars, schemaVars, ProcessIdle>>

InitTools ==
    /\ SessionsIdle
    /\ SchemaIdle
    /\ StoreEmpty
    /\ AgentIdle
    /\ ScriptIdle

NextTools ==
    \/ ProcessCheckNeo4jReady
    \/ ProcessClearDatabase
    \/ ProcessCreateConstraint
    \/ ProcessImportCsvNodes
    \/ ProcessCreateRelationships
    \/ ProcessVerifyGraph
    \/ ProcessGetConstructionStats

SpecTools == InitTools /\ [][NextTools]_vars

\* Callers of create_nodes: importing one entity again and again, or one
\* frame of many rows
InitCreateNodes ==
    /\ SessionsIdle
    /\ SchemaIdle
    /\ StoreEmpty
    /\ AgentIdle
    /\ data_files = <<>>
    /\ frames \in {UpsertFrames} \cup { {df} : df \in BatchFrames }
    /\ pc = "idle"
    /\ construction = NoConstruction
    /\ call = NoCall
    /\ sent = <<>>
    /\ history = <<>>
    /\ upserted = {}
    /\ faults = 0

NextCreateNodes ==
    \/ CallCreateNodes
    \/ CreateNodesConstraint
    \/ CreateNodesBatch
    \/ CreateNodesReturn

SpecCreateNodes == InitCreateNodes /\ [][NextCreateNodes]_vars

\* What a caller keeps of the create_nodes call that returned before the
\* one it makes now: the record set, the count returned and the statements
\* sent
PreviousCall ==
    IF call = NoCall THEN NoCall
    ELSE [state |-> "returned", df |-> call.df, nodes_created |-> call.nodes_created,
          sent |-> sent]

\* A caller of GraphConstructor.create_nodes that keeps what the call
\* before returned and the nodes the store held when it called
CallCreateNodesAgain ==
    /\ pc = "idle"
    /\ \E df \in frames :
           call' = [state |-> "running", df |-> df,
                    label |-> ConstructionPlan[1].label,
                    unique_property |-> ConstructionPlan[1].unique_property,
                    properties |-> ConstructionPlan[1].properties,
                    i |-> 0, nodes_created |-> 0, in_construction |-> FALSE,
                    previous |-> PreviousCall, nodes_before |-> store_nodes]
    /\ pc' = "create_constraint"
    /\ sent' = <<>>
    /\ UNCHANGED <<sessionVars, schemaVars, storeVars, agentVars, data_files, frames, construction,
                   history, upserted, faults>>

\* Callers that call create_nodes again: over the records of one entity,
\* over records that lack values, or over a frame of two batches whose
\* first record, or whose first batch, is empty
InitCallAgain ==
    /\ SessionsIdle
    /\ SchemaIdle
    /\ StoreEmpty
    /\ AgentIdle
    /\ data_files = <<>>
    /\ frames \in {UpsertFrames, NullKeyFrames, {BatchFrame(BatchSize + 1, 1)},
                   {BatchFrame(BatchSize + 1, BatchSize)}}
    /\ pc = "idle"
    /\ construction = NoConstruction
    /\ call = NoCall
    /\ sent = <<>>
    /\ history = <<>>
    /\ upserted = {}
    /\ faults = 0

NextCallAgain ==
    \/ CallCreateNodesAgain
    \/ CreateNodesConstraint
    \/ CreateNodesBatch
    \/ CreateNodesReturn

SpecCallAgain == InitCallAgain /\ [][NextCallAgain]_vars

\* The script: construction runs over one data directory and one store
Init ==
    /\ SessionsIdle
    /\ SchemaIdle
    /\ StoreEmpty
    /\ AgentIdle
    /\ data_files \in DataDirs
    /\ frames = {}
    /\ pc = "idle"
    /\ construction = NoConstruction
    /\ call = NoCall
    /\ sent = <<>>
    /\ history = <<>>
    /\ upserted = {}
    /\ faults = 0

Next ==
    \/ Main
    \/ CallConstructCompleteGraph
    \/ ClearExistingGraph
    \/ LoadCsvData
    \/ CreateAllNodes
    \/ CreateNodesConstraint
    \/ CreateNodesBatch
    \/ CreateNodesReturn
    \/ GraphConstructorCreateRelationships
    \/ GraphConstructorVerifyGraph

Spec == Init /\ [][Next]_vars

\* The supplier file as it grows: first one supplier, then the supplier
\* with the lesser id as a second row
SupplierFiles == { SubSeq(DataFiles.Supplier, 1, n) : n \in 1..Len(DataFiles.Supplier) }

\* Rows are added to suppliers.csv between two runs: load_csv_data reads the
\* files anew in every run
AddSupplierRows ==
    /\ pc = "idle"
    /\ "Supplier" \in DOMAIN data_files
    /\ \E f \in SupplierFiles :
           /\ Len(f) > Len(data_files.Supplier)
           /\ data_files' = [data_files EXCEPT !.Supplier = f]
    /\ UNCHANGED <<sessionVars, schemaVars, storeVars, agentVars, frames, pc, construction, call, sent,
                   history, upserted, faults>>

\* The script over a store that carries out every statement it can, and a
\* supplier file that grows between the runs
InitSuppliers ==
    /\ SessionsIdle
    /\ SchemaIdle
    /\ StoreEmpty
    /\ AgentIdle
    /\ data_files \in { [l \in DOMAIN DataFiles |->
                            IF l = "Supplier" THEN f ELSE DataFiles[l]] : f \in SupplierFiles }
    /\ frames = {}
    /\ pc = "idle"
    /\ construction = NoConstruction
    /\ call = NoCall
    /\ sent = <<>>
    /\ history = <<>>
    /\ upserted = {}
    /\ faults = MaxFaults

NextSuppliers ==
    \/ Next
    \/ AddSupplierRows

SpecSuppliers == InitSuppliers /\ [][NextSuppliers]_vars

\* A run is aborted from outside between two statements of its node and
\* relationship steps: the process ends where it is, nothing is undone
CancelRun ==
    /\ pc \in {"nodes", "create_constraint", "batch", "relationships"}
    /\ construction # NoConstruction
    /\ pc' = "idle"
    /\ history' = Append(history,
                         RunRecord(FALSE, FALSE, construction.clear_existing, sent,
                                   store_nodes, store_rels, 0, NoTotals))
    /\ construction' = NoConstruction
    /\ call' = NoCall
    /\ UNCHANGED <<sessionVars, schemaVars, storeVars, agentVars, data_files, frames, sent, upserted,
                   faults>>

\* The script over a store that carries out every statement it can, with
\* runs that can be aborted
InitCancel ==
    /\ SessionsIdle
    /\ SchemaIdle
    /\ StoreEmpty
    /\ AgentIdle
    /\ data_files \in DataDirs
    /\ frames = {}
    /\ pc = "idle"
    /\ construction = NoConstruction
    /\ call = NoCall
    /\ sent = <<>>
    /\ history = <<>>
    /\ upserted = {}
    /\ faults = MaxFaults

NextCancel ==
    \/ Next
    \/ CancelRun

SpecCancel == InitCancel /\ [][NextCancel]_vars

\* The files of the data directory are taken away between two runs:
\* load_csv_data looks for the files anew in every run
RemoveDataFiles ==
    /\ pc = "idle"
    /\ DOMAIN data_files # {}
    /\ data_files' = [l \in {} |-> <<>>]
    /\ UNCHANGED <<sessionVars, schemaVars, storeVars, agentVars, frames, pc, construction, call, sent,
                   history, upserted, faults>>

\* The script over a data directory that can lose its files
InitDirs ==
    /\ SessionsIdle
    /\ SchemaIdle
    /\ StoreEmpty
    /\ AgentIdle
    /\ data_files \in DataDirs
    /\ frames = {}
    /\ pc = "idle"
    /\ construction = NoConstruction
    /\ call = NoCall
    /\ sent = <<>>
    /\ history = <<>>
    /\ upserted = {}
    /\ faults = 0

NextDirs ==
    \/ Next
    \/ RemoveDataFiles

SpecDirs == InitDirs /\ [][NextDirs]_vars

\* A SessionManager over an empty storage directory, writable or not,
\* under one of the configured timeouts
InitSessions ==
    /\ SchemaIdle
    /\ StoreEmpty
    /\ AgentIdle
    /\ ScriptIdle
    /\ session_objects = <<>>
    /\ sessions = {}
    /\ session_files \in {<<>>, Unwritable}
    /\ session_timeout \in SessionTimeouts
    /\ now = 0
    /\ session_result = NoSessionCall
    /\ task_starts = <<>>

NextSessions ==
    \/ CreateSession
    \/ GetSession
    \/ CloseSession
    \/ CleanupExpiredSessions
    \/ Tick

SpecSessions == InitSessions /\ [][NextSessions]_vars

\* One Session object and the callers of its task methods
InitTasks ==
    /\ SchemaIdle
    /\ StoreEmpty
    /\ AgentIdle
    /\ ScriptIdle
    /\ session_objects = [id \in {1} |-> NewSession(1, "u1", 0)]
    /\ sessions = {}
    /\ session_files = <<>>
    /\ session_timeout = DefaultSessionTimeout
    /\ now = 0
    /\ session_result = NoSessionCall
    /\ task_starts = [id \in {1} |-> 0]

NextTasks ==
    \/ StartTask
    \/ CompleteTask
    \/ FailTask
    \/ Tick

SpecTasks == InitTasks /\ [][NextTasks]_vars

\* The user intent agent and the callers of its goal tools
InitIntent ==
    /\ SessionsIdle
    /\ SchemaIdle
    /\ StoreEmpty
    /\ ScriptIdle
    /\ tool_state = InitialIntentState
    /\ tool_result = NoResult
    /\ tool_trace = <<>>

NextIntent ==
    \/ SetPerceivedUserGoal
    \/ ApprovePerceivedUserGoal
    \/ GetPerceivedUserGoal
    \/ GetApprovedUserGoal

SpecIntent == InitIntent /\ [][NextIntent]_vars

(***************************************************************************)
(* Properties of the computed import order                                 *)
(***************************************************************************)
\* The label of the node type analysed from a source file
LabelOfFile(f) ==
    LET i == CHOOSE k \in DOMAIN schema_proposal.nodes :
                 schema_proposal.nodes[k].source_file = f
    IN schema_proposal.nodes[i].label

\* The node type with this label is the source of an inferred relationship
HasOutbound(label) ==
    \E r \in DOMAIN schema_proposal.relationships :
        schema_proposal.relationships[r].from_label = label

\* A property name that refers to a label: "<label>_id", case-insensitively
RefersVia(prop_name, label) == Lower(prop_name) = Lower(label) \o UnderscoreId

\* C4: every node type without an outbound relationship comes before every
\* node type with one in the import order; in particular a type B without
\* outbound references comes before a type A that carries the property B_id.
C4_IndependentBeforeDependent ==
    schema_status = "success" =>
        LET order == schema_proposal.import_order
            nodes == schema_proposal.nodes
        IN /\ \A p, q \in DOMAIN order :
                  (HasOutbound(LabelOfFile(order[p])) /\ ~HasOutbound(LabelOfFile(order[q])))
                      => q < p
           /\ \A i, j \in DOMAIN nodes :
                  ( /\ nodes[i].label # nodes[j].label
                    /\ \E k \in DOMAIN nodes[i].properties :
                           RefersVia(nodes[i].properties[k].name, nodes[j].label)
                    /\ ~HasOutbound(nodes[j].label) )
                  => \A p, q \in DOMAIN order :
                         (order[p] = nodes[i].source_file /\ order[q] = nodes[j].source_file)
                             => q < p

\* C4 witness: A is listed before B, A carries B_id, B has no outbound
\* reference, and the analysis has produced an import order.
C4_Witness ==
    /\ schema_status = "success"
    /\ \E i, j \in DOMAIN schema_proposal.nodes :
           /\ i < j
           /\ schema_proposal.nodes[i].label # schema_proposal.nodes[j].label
           /\ \E k \in DOMAIN schema_proposal.nodes[i].properties :
                  RefersVia(schema_proposal.nodes[i].properties[k].name,
                            schema_proposal.nodes[j].label)
           /\ ~HasOutbound(schema_proposal.nodes[j].label)

\* The labels reachable from a set of labels along inferred relationships
RECURSIVE ReachableFrom(_, _)
ReachableFrom(labels, n) ==
    IF n = 0 THEN labels
    ELSE ReachableFrom(
             labels \cup { schema_proposal.relationships[r].to_label :
                             r \in { k \in DOMAIN schema_proposal.relationships :
                                       schema_proposal.relationships[k].from_label \in labels } },
             n - 1)

\* The relationship lies on a reference cycle: its target refers back to its source
OnCycle(rel) ==
    rel.from_label \in ReachableFrom({rel.to_label}, Len(schema_proposal.nodes))

\* C5 as stated: for every inferred relationship from X to a different type
\* Y that is not part of a reference cycle, Y is placed no later than X in
\* the import order, at any chain depth.
C5_ReferencedNoLater ==
    schema_status = "success" =>
        LET order == schema_proposal.import_order
            rels == schema_proposal.relationships
        IN \A r \in DOMAIN rels :
               (rels[r].from_label # rels[r].to_label /\ ~OnCycle(rels[r]))
                   => \A p, q \in DOMAIN order :
                          ( /\ LabelOfFile(order[p]) = rels[r].from_label
                            /\ LabelOfFile(order[q]) = rels[r].to_label )
                          => q <= p

IsDependentFile(f) == HasOutbound(LabelOfFile(f))

\* C5 amended: a referenced type without outbound relationships of its own
\* is placed before every type that refers to it; the types that have
\* outbound relationships (inner members of chains, members of cycles) come
\* after all others and keep their input order among themselves.
C5_TwoBucketOrder ==
    schema_status = "success" =>
        LET order == schema_proposal.import_order
            rels == schema_proposal.relationships
        IN /\ \A r \in DOMAIN rels :
                  ( /\ rels[r].from_label # rels[r].to_label
                    /\ ~HasOutbound(rels[r].to_label) )
                  => \A p, q \in DOMAIN order :
                         ( /\ LabelOfFile(order[p]) = rels[r].from_label
                           /\ LabelOfFile(order[q]) = rels[r].to_label )
                         => q < p
           /\ SelectSeq(order, IsDependentFile)
                  = SelectSeq(SourceFiles(schema_proposal.nodes), IsDependentFile)

\* C5 witness: a chain A -> B -> C of three types has been ordered
C5_Witness ==
    /\ schema_status = "success"
    /\ \E r1, r2 \in DOMAIN schema_proposal.relationships :
           LET x == schema_proposal.relationships[r1]
               y == schema_proposal.relationships[r2]
           IN /\ x.to_label = y.from_label
              /\ x.from_label # x.to_label
              /\ y.from_label # y.to_label
              /\ x.from_label # y.to_label
              /\ ~HasOutbound(y.to_label)

(***************************************************************************)
(* Properties of the constructor agent's tools                             *)
(***************************************************************************)
\* The relationships of one type between nodes of two labels
RelsBetween(rs, type, from_label, to_label) ==
    { r \in rs : r.type = type /\ r.from.label = from_label /\ r.to.label = to_label }

\* A relationship without its identity
Edge(r) == [type |-> r.type, from |-> r.from, to |-> r.to]

Edges(rs) == { Edge(r) : r \in rs }

\* The relationships a descriptor asks for: one from a to b for every pair
\* of a from-node and a to-node that both carry the match property with
\* equal values
Demanded(ns, config) ==
    { e \in [type : {config.relationship_type}, from : ns, to : ns] :
        /\ e.from.label = config.from_label
        /\ e.to.label = config.to_label
        /\ config.match_property \in DOMAIN e.from.props
        /\ config.match_property \in DOMAIN e.to.props
        /\ e.from.props[config.match_property] = e.to.props[config.match_property] }

\* The configs of the last create_relationships call whose statement succeeded
SucceededConfigs(result) ==
    { result.args.relationship_configs[i] :
        i \in { k \in DOMAIN result.relationship_results :
                  result.relationship_results[k].status = "success" } }

\* C6 as stated: after create_relationships has run a descriptor
\* successfully, the relationships of its type from its from-label to its
\* to-label are exactly the pairs with equal values of the match property.
C6_ExactlyMatchingPairs ==
    (tool_result.tool = "create_relationships" /\ ~tool_result.raised) =>
        \A config \in SucceededConfigs(tool_result) :
            LET between == RelsBetween(store_rels, config.relationship_type,
                                       config.from_label, config.to_label)
            IN /\ Edges(between) = Demanded(store_nodes, config)
               /\ Cardinality(between) = Cardinality(Demanded(store_nodes, config))

\* C6 amended: a create_relationships call adds, for each descriptor whose
\* statement succeeds, one relationship for every pair with equal values of
\* the match property that is not connected yet, and nothing else: the
\* relationships that were in the store stay, no pair gets a second
\* relationship of the type, a node without the match property gets none,
\* and the same call made again after a call whose statements all succeeded
\* adds nothing.
C6_AddsMatchingPairs ==
    [][ (tool_result'.tool = "create_relationships" /\ ~tool_result'.raised) =>
            /\ store_rels \subseteq store_rels'
            /\ Edges(store_rels') = Edges(store_rels) \cup
                   UNION { Demanded(store_nodes, config) :
                             config \in SucceededConfigs(tool_result') }
            /\ Cardinality(store_rels') = Cardinality(Edges(store_rels'))
            /\ ( /\ tool_result.tool = "create_relationships"
                 /\ ~tool_result.raised
                 /\ tool_result.args = tool_result'.args
                 /\ \A k \in DOMAIN tool_result.relationship_results :
                        tool_result.relationship_results[k].status = "success" )
               => store_rels' = store_rels ]_vars

\* C6 witness: a descriptor has run successfully over a store in which one
\* pair matches and one to-node lacks the match property, and one
\* relationship of its type exists.
C6_Witness ==
    /\ tool_result.tool = "create_relationships"
    /\ ~tool_result.raised
    /\ \E config \in SucceededConfigs(tool_result) :
           /\ \E n \in store_nodes : /\ n.label = config.to_label
                                     /\ config.match_property \notin DOMAIN n.props
           /\ Cardinality(Demanded(store_nodes, config)) = 1
           /\ Cardinality(RelsBetween(store_rels, config.relationship_type,
                                      config.from_label, config.to_label)) = 1

\* C7: the health score is 40 for nodes plus 40 for relationships plus 20
\* for a connected sample, the status is 'healthy' from 80, 'degraded' from
\* 40 and 'unhealthy' below, and the issues list has one entry per
\* component that contributed nothing.
C7_HealthScoring ==
    (tool_result.tool = "verify_graph" /\ tool_result.status = "success") =>
        LET v == tool_result.verification_results
            has_nodes == v.total_nodes > 0
            has_rels == v.total_relationships > 0
            has_paths == v.connected_paths > 0
            missing == Cardinality({ c \in {"nodes", "rels", "paths"} :
                                       \/ c = "nodes" /\ ~has_nodes
                                       \/ c = "rels" /\ ~has_rels
                                       \/ c = "paths" /\ ~has_paths })
        IN /\ v.health_score = (IF has_nodes THEN 40 ELSE 0) + (IF has_rels THEN 40 ELSE 0)
                               + (IF has_paths THEN 20 ELSE 0)
           /\ v.health_score \in {0, 20, 40, 60, 80, 100}
           /\ v.status = "healthy" <=> v.health_score >= 80
           /\ v.status = "degraded" <=> (v.health_score >= 40 /\ v.health_score < 80)
           /\ v.status = "unhealthy" <=> v.health_score < 40
           /\ Len(v.issues) = missing
           /\ ~has_nodes <=> \E i \in DOMAIN v.issues : v.issues[i] = "No nodes found in graph"
           /\ ~has_rels <=> \E i \in DOMAIN v.issues :
                                v.issues[i] = "No relationships found in graph"
           /\ ~has_paths <=> \E i \in DOMAIN v.issues : v.issues[i] = "No connected paths found"
           /\ v = tool_state.graph_verification

\* C7 witness: a verification that found nodes and relationships but no
\* connected sample, scoring exactly 80
C7_Witness ==
    /\ tool_result.tool = "verify_graph"
    /\ tool_result.status = "success"
    /\ tool_result.verification_results.health_score = 80
    /\ store_nodes # {}

\* C8 as stated: when the constraint creation of an import fails, by an
\* error status or by raising, the node upsert is still attempted and the
\* import reports the upsert's outcome.
C8_UpsertAfterConstraintFailure ==
    ( /\ tool_result.tool = "import_csv_nodes"
      /\ tool_trace[1][2] # "success" ) =>
        /\ Len(tool_trace) = 2
        /\ tool_trace[2][1] = "load_nodes_from_csv"
        /\ tool_result.status = (IF tool_trace[2][2] = "success" THEN "success" ELSE "error")

(***************************************************************************)
(* Properties of create_nodes                                              *)
(***************************************************************************)
\* The nodes of the label that carry the value as the property
NodesWith(label, property, value) ==
    { n \in store_nodes : /\ n.label = label
                          /\ property \in DOMAIN n.props
                          /\ n.props[property] = value }

\* Two projections of one entity: both carry the primary key, with the same
\* value
SameEntity(p, q, unique_property) ==
    /\ unique_property \in DOMAIN p
    /\ unique_property \in DOMAIN q
    /\ p[unique_property] = q[unique_property]

\* C1 as stated: two records with the same primary key whose non-null
\* projected properties differ in an optional property, both upserted, leave
\* two distinct nodes; two records with identical projections leave one.
C1_DuplicatePerDifference ==
    \A p, q \in upserted :
        LET unique_property == ConstructionPlan[1].unique_property
            label == ConstructionPlan[1].label
        IN SameEntity(p, q, unique_property) =>
               IF p # q
               THEN Cardinality(NodesWith(label, unique_property, p[unique_property])) >= 2
               ELSE Cardinality({ n \in store_nodes : n.label = label /\ n.props = p }) = 1

\* C1 amended: every upserted record has a node that carries all its
\* projected properties; two upserted records with the same primary key
\* that give different values to an optional property have two distinct
\* nodes, which takes a store without the uniqueness constraint on the key,
\* for under the constraint no two nodes share the key; records with
\* identical projections have one node between them: no two nodes carry the
\* same properties, and there are no more nodes than distinct projections.
C1_MergeByFullPropertySet ==
    LET unique_property == ConstructionPlan[1].unique_property
        label == ConstructionPlan[1].label
        holding(p) == { n \in store_nodes :
                          /\ n.label = label
                          /\ \A k \in DOMAIN p : k \in DOMAIN n.props /\ n.props[k] = p[k] }
    IN /\ \A p \in upserted : holding(p) # {}
       /\ \A p, q \in upserted :
              ( /\ SameEntity(p, q, unique_property)
                /\ \E k \in DOMAIN p \cap DOMAIN q : p[k] # q[k] )
              => /\ holding(p) \cap holding(q) = {}
                 /\ Cardinality(NodesWith(label, unique_property, p[unique_property])) >= 2
                 /\ [label |-> label, property |-> unique_property] \notin store_constraints
       /\ Cardinality({ <<n.label, n.props>> : n \in store_nodes }) = Cardinality(store_nodes)
       /\ Cardinality(store_nodes) <= Cardinality(upserted)
       /\ [label |-> label, property |-> unique_property] \in store_constraints
              => LET keyed == { n \in store_nodes : /\ n.label = label
                                                    /\ unique_property \in DOMAIN n.props }
                 IN Cardinality({ n.props[unique_property] : n \in keyed })
                        = Cardinality(keyed)

\* C1 witness: two imports of one product under two names have succeeded and
\* have left two nodes with the product's key, and an import of the same
\* record twice has left one
C1_Witness ==
    /\ frames = UpsertFrames
    /\ call.state = "returned"
    /\ Cardinality(upserted) = 2
    /\ \E p, q \in upserted : /\ SameEntity(p, q, "product_id")
                              /\ "product_name" \in DOMAIN p \cap DOMAIN q
                              /\ p.product_name # q.product_name
    /\ Cardinality(NodesWith("Product", "product_id", "P1")) = 2
    /\ Len(call.df) = 2 /\ call.df[1] = call.df[2]

\* The batch statements of the statements sent
Batches(log) == SelectSeq(log, LAMBDA st : st.kind = "batch")

\* ceil(n / BatchSize)
BatchCount(n) == (n + BatchSize - 1) \div BatchSize

\* The sizes of the batches whose statement succeeded, added up
SucceededSize(batches) ==
    SumOver([k \in DOMAIN batches |-> batches[k].size],
            { k \in DOMAIN batches : batches[k].ok })

\* What C3 says of a create_nodes call that has returned
BatchingHolds ==
    LET n == Len(call.df)
        batches == Batches(sent)
    IN /\ Len(batches) = BatchCount(n)
       /\ \A k \in DOMAIN batches :
              batches[k].size = IF k < BatchCount(n) THEN BatchSize
                                ELSE n - BatchSize * (BatchCount(n) - 1)
       /\ call.nodes_created = SucceededSize(batches)

\* C3 as stated: n rows make ceil(n/50) batch statements of 50 rows and a
\* remainder, the returned count is the sum of the sizes of the batches that
\* succeeded, and a failed batch stops no later batch.
C3_Batching == call.state = "returned" => BatchingHolds

\* C3 amended: the same, for a record set in which every row has a value
\* in at least one projected column: a row with none makes no MERGE clause,
\* and a batch with no clause is not sent.
C3_BatchingOfFilledRows ==
    ( /\ call.state = "returned"
      /\ \A k \in DOMAIN call.df :
             HasProps(Projection(call.df[k], call.unique_property, call.properties)) )
    => BatchingHolds

\* C3 witness: 130 rows, the second batch failed, the third was sent and
\* succeeded, and the count is 80
C3_Witness ==
    /\ call.state = "returned"
    /\ Len(call.df) = 130
    /\ LET batches == Batches(sent)
       IN /\ Len(batches) = 3
          /\ batches[1].ok
          /\ ~batches[2].ok
          /\ batches[3].ok
          /\ <<batches[1].size, batches[2].size, batches[3].size>> = <<50, 50, 30>>
    /\ call.nodes_created = 80

(***************************************************************************)
(* Properties of a construction run                                        *)
(***************************************************************************)
\* What C2 says of two runs in a row: the counts after the second are the
\* counts after the first
SameCounts(first, second) ==
    /\ second.nodes = first.nodes
    /\ second.rels = first.rels

\* Run k of the history ran the full construction and run k + 1 ran it
\* again without clearing
RanAgain(k) ==
    /\ history[k].completed
    /\ history[k + 1].completed
    /\ history[k + 1].clear_existing = "False"

C9_ClearOnlyWhenConfirmed ==
    ( /\ construction.state = "running"
      /\ \E k \in DOMAIN sent : sent[k].kind = "clear" )
    => construction.clear_existing = "True"

\* The places of the statements of a kind in the log
Places(kind) == { k \in DOMAIN sent : sent[k].kind = kind }

\* C10 as stated: every constraint statement of a run comes before its first
\* node batch, every node batch before its first relationship statement,
\* every relationship statement before its first verification query.
C10_StagesInOrder ==
    /\ \A i \in Places("constraint"), j \in Places("batch") : i < j
    /\ \A i \in Places("batch"), j \in Places("relationship") : i < j
    /\ \A i \in Places("relationship"), j \in Places("verify") : i < j

\* C10 amended: the constraint statement of a label comes before the node
\* batches of that label, and after the batches of the labels before it; every
\* constraint statement and node batch comes before the first relationship
\* statement, and every relationship statement before the first
\* verification query; a run that gets to its end has sent the constraint
\* statement and a batch of every label it loaded, the three relationship
\* statements and the three verification queries.
C10_StagesPerLabelInOrder ==
    /\ \A i \in Places("constraint"), j \in Places("batch") :
           sent[i].about = sent[j].about => i < j
    /\ \A i \in Places("constraint") \cup Places("batch"), j \in Places("relationship") : i < j
    /\ \A i \in Places("relationship"), j \in Places("verify") : i < j
    /\ ( /\ pc = "idle"
         /\ history # <<>>
         /\ history[Len(history)].completed )
       => /\ \A label \in DOMAIN data_files :
                 /\ Cardinality({ i \in Places("constraint") : sent[i].about = label }) = 1
                 /\ Cardinality({ i \in Places("batch") : sent[i].about = label }) = 1
          /\ [k \in 1..Cardinality(Places("relationship")) |->
                 sent[(CHOOSE i \in Places("relationship") :
                           Cardinality({ j \in Places("relationship") : j <= i }) = k)].about]
                 = RelationshipTypes
          /\ Cardinality(Places("verify")) = 3

\* C10 witness: a run over the four files has got to its end
C10_Witness ==
    /\ pc = "idle"
    /\ history # <<>>
    /\ history[Len(history)].completed
    /\ Cardinality(Places("constraint")) = 4
    /\ Cardinality(Places("batch")) = 4
    /\ \E i \in Places("batch"), j \in Places("constraint") : i < j

(***************************************************************************)
(* Properties of the error handling of a construction run                  *)
(***************************************************************************)
Raised == { k \in DOMAIN sent : sent[k].raised }

\* C11 as stated: when a store call of a run raises, the run aborts at once:
\* no statement is sent to the store after the statement that raised, and a
\* run that has ended after a raise has ended in failure.
C11_StoreUnreachableIsFatal ==
    /\ \A k \in Raised : k = Len(sent)
    /\ (pc = "idle" /\ history # <<>> /\ Raised # {}) => ~history[Len(history)].result

\* C12 as stated: when create_relationships_tool is given a list of
\* descriptors and the statement of one of them fails, with an error status
\* or with a raised exception, the statement of every later descriptor is
\* still issued and the counts of the types that succeeded are reported.
C12_LaterDescriptorsStillIssued ==
    tool_result.tool = "create_relationships" =>
        LET configs == tool_result.args.relationship_configs
        IN /\ Len(tool_trace) = Len(configs)
           /\ \A k \in DOMAIN tool_trace :
                  tool_trace[k][2] = "success" =>
                      /\ "relationship_results" \in DOMAIN tool_result
                      /\ tool_result.relationship_results[k].status = "success"
                      /\ tool_result.relationship_results[k].relationship
                             = configs[k].relationship_type

\* A construction run has returned, and `sent` is what it sent to the store
RunEnded == pc = "idle" /\ history # <<>>

\* The run ended on the store: the connection test of main failed, or the
\* clear statement raised
StoppedByStore ==
    \E k \in DOMAIN sent : \/ sent[k].kind = "test" /\ ~sent[k].ok
                           \/ sent[k].kind = "clear" /\ sent[k].raised

PlanLabels == { ConstructionPlan[i].label : i \in DOMAIN ConstructionPlan }

\* Every node type whose file was read got its constraint statement and
\* its batch, no other type did, and the three relationship statements and
\* the three verification queries were sent afterwards
LoadedTypesImported ==
    /\ { sent[k].about : k \in Places("batch") } = DOMAIN data_files
    /\ { sent[k].about : k \in Places("constraint") } = DOMAIN data_files
    /\ Cardinality(Places("relationship")) = Len(RelationshipTypes)
    /\ Cardinality(Places("verify")) = 3
    /\ \A i \in Places("batch"), j \in Places("relationship") : i < j
    /\ \A i \in Places("relationship"), j \in Places("verify") : i < j
    /\ history[Len(history)].completed

\* C13 as stated: a record set whose file is missing or unreadable is
\* skipped without aborting the run: every node type whose record set loaded
\* is still imported, and relationship creation and verification still run.
C13_SourceUnavailableNonFatal ==
    (RunEnded /\ ~StoppedByStore /\ DOMAIN data_files # PlanLabels) => LoadedTypesImported

\* C13, amended: the same, for a run in which at least one record set
\* loaded; when none loaded the run returns failure after the load, having
\* sent no constraint, batch, relationship or verification statement.
C13_SourceUnavailableSkipped ==
    (RunEnded /\ ~StoppedByStore) =>
        IF DOMAIN data_files # {}
        THEN LoadedTypesImported
        ELSE /\ ~history[Len(history)].result
             /\ ~history[Len(history)].completed
             /\ \A k \in DOMAIN sent : sent[k].kind \in {"test", "clear"}

\* C13 witness: a run without the assembly file has imported the three other
\* node types and has gone through relationships and verification
C13_Witness ==
    /\ RunEnded
    /\ DOMAIN data_files = {"Product", "Part", "Supplier"}
    /\ { sent[k].about : k \in Places("batch") } = {"Product", "Part", "Supplier"}
    /\ \A k \in Places("batch") : sent[k].ok
    /\ Cardinality(Places("verify")) = 3
    /\ history[Len(history)].completed

\* The non-fatal failures of the run that `sent` is of: the files that could
\* not be read, and the constraint statements, node batches and relationship
\* statements that did not succeed
NonFatalFailures ==
    Cardinality(PlanLabels \ DOMAIN data_files)
        + Cardinality({ k \in DOMAIN sent :
                          /\ sent[k].kind \in {"constraint", "batch", "relationship"}
                          /\ ~sent[k].ok })

\* C14 as stated: every non-fatal error of a run adds an entry to the issues
\* of its report: a run that has got to its end reports at least as many
\* issues as it had non-fatal failures.
C14_IssuesCountFailures ==
    (RunEnded /\ history[Len(history)].completed) =>
        history[Len(history)].issues >= NonFatalFailures

(***************************************************************************)
(* Properties of the results of the constructor agent's tools              *)
(***************************************************************************)
ConstructorTools ==
    {"check_neo4j_ready", "clear_database", "create_constraint", "import_csv_nodes",
     "create_relationships", "verify_graph", "get_construction_stats"}

\* C15: every tool of the constructor agent returns a result whose status is
\* 'success' or 'error' whatever the store did; when a store call raised, the
\* tool has caught the exception and returned a result with status 'error'.
C15_EveryToolReturnsAResult ==
    tool_result.tool # "none" =>
        /\ tool_result.tool \in ConstructorTools
        /\ tool_result.status \in {"success", "error"}
        /\ (\E k \in DOMAIN tool_trace : tool_trace[k][2] = "raise")
               => (tool_result.status = "error" /\ tool_result.raised)

\* C15 witness: the store raised for a relationship statement and the tool
\* returned an error result
C15_Witness ==
    /\ tool_result.tool = "create_relationships"
    /\ Len(tool_trace) = 2
    /\ tool_trace[2][2] = "raise"
    /\ tool_result.status = "error"
    /\ tool_result.raised

(***************************************************************************)
(* Properties of the proposed schema                                       *)
(***************************************************************************)
ProposedNodes == Range(schema_proposal.nodes)

\* The descriptors of the proposal, as (from label, property, to label, type)
EmittedTriples ==
    { <<r.from_label, r.property, r.to_label, r.type>> :
        r \in Range(schema_proposal.relationships) }

\* The foreign key names of a label: '<label>_id' and '<label>id', lower-cased
ForeignKeyNames(label) == { Lower(label) \o UnderscoreId, Lower(label) \o IdWord }

\* C16 as stated: the descriptors are exactly X -[BELONGS_TO_Y]-> Y on p for
\* the node types X and Y of different labels and the properties p of X whose
\* lower-cased name is the lower-cased label of Y followed by '_id' or 'id';
\* no descriptor goes from a node type to itself.
C16_RelationshipInference ==
    schema_status = "success" =>
        /\ EmittedTriples =
               { <<X.label, X.properties[j].name, Y.label, BelongsTo \o Upper(Y.label)>> :
                   <<X, j, Y>> \in
                       { t \in ProposedNodes \X (1..2) \X ProposedNodes :
                           /\ t[2] \in DOMAIN t[1].properties
                           /\ t[1].label # t[3].label
                           /\ Lower(t[1].properties[t[2]].name) \in ForeignKeyNames(t[3].label) } }
        /\ \A r \in Range(schema_proposal.relationships) : r.from_label # r.to_label

\* The properties of node n that the two rules name as primary key: a name
\* that is 'id', 'uuid' or 'key', or the node's own label followed by '_id',
\* upper and lower case alike
KeyCandidates(n) ==
    { j \in DOMAIN n.properties :
        \/ Lower(n.properties[j].name) \in {Str_id, Str_uuid, Str_key}
        \/ Lower(n.properties[j].name) = Lower(n.label) \o UnderscoreId }

\* C17 as stated: the primary key of a node type is its first property, in
\* column order, named 'id', 'uuid', 'key' or '<label>_id', and is null
\* exactly when no property is named so.
C17_PrimaryKeyInference ==
    schema_status = "success" =>
        \A n \in ProposedNodes :
            IF KeyCandidates(n) = {}
            THEN n.primary_key = <<>>
            ELSE \E j \in KeyCandidates(n) :
                     /\ \A k \in KeyCandidates(n) : j <= k
                     /\ n.primary_key = n.properties[j].name

PropertyNames(n) == { n.properties[j].name : j \in DOMAIN n.properties }

\* The constraints of the proposal on label l
ConstraintsOn(l) ==
    { k \in DOMAIN schema_proposal.constraints : schema_proposal.constraints[k].label = l }

\* C18 as stated: the schema holds exactly one uniqueness constraint for each
\* node type with a primary key, on its label and primary key, and none for
\* a node type without one; the property of every constraint is a property
\* of the node type the constraint names.
C18_ConstraintPerPrimaryKey ==
    schema_status = "success" =>
        /\ \A n \in ProposedNodes :
               IF n.primary_key # <<>>
               THEN Cardinality({ k \in ConstraintsOn(n.label) :
                                    /\ schema_proposal.constraints[k].type = "uniqueness"
                                    /\ schema_proposal.constraints[k].property
                                           = n.primary_key }) = 1
               ELSE ConstraintsOn(n.label) = {}
        /\ \A k \in DOMAIN schema_proposal.constraints :
               /\ \E n \in ProposedNodes : n.label = schema_proposal.constraints[k].label
               /\ \A n \in ProposedNodes :
                      n.label = schema_proposal.constraints[k].label
                          => schema_proposal.constraints[k].property \in PropertyNames(n)

\* C19 as stated: label derivation is collision-free: an analysis of record
\* sets that derive the same label fails, so a schema that is returned never
\* holds two node types with the same label.
C19_NoLabelCollision ==
    schema_status = "success" =>
        \A i, j \in DOMAIN schema_proposal.nodes :
            schema_proposal.nodes[i].label = schema_proposal.nodes[j].label => i = j

\* The ways of putting the n nodes of the proposal in an order: position k
\* of the order takes the node at position pi[k] of the input
Arrangements(n) ==
    { pi \in [1..n -> 1..n] : \A k, l \in 1..n : pi[k] = pi[l] => k = l }

\* C20: the import order is a permutation of the analysed node types, each
\* taken exactly once, and two node types that both have an outbound
\* relationship, or both have none, keep their relative input order.
C20_StablePermutation ==
    schema_status = "success" =>
        LET order == schema_proposal.import_order
            nodes == schema_proposal.nodes
        IN /\ Len(order) = Len(nodes)
           /\ \E pi \in Arrangements(Len(nodes)) :
                  /\ \A k \in DOMAIN order : order[k] = nodes[pi[k]].source_file
                  /\ \A k, l \in DOMAIN order :
                         ( /\ k < l
                           /\ HasOutbound(nodes[pi[k]].label) = HasOutbound(nodes[pi[l]].label) )
                             => pi[k] < pi[l]

\* C20 witness: a node type with an outbound relationship is listed first,
\* two without one follow, and the order has the two in input order before
\* the first
C20_Witness ==
    /\ schema_status = "success"
    /\ Len(schema_proposal.nodes) = 3
    /\ HasOutbound(schema_proposal.nodes[1].label)
    /\ ~HasOutbound(schema_proposal.nodes[2].label)
    /\ ~HasOutbound(schema_proposal.nodes[3].label)
    /\ schema_proposal.nodes[2].source_file # schema_proposal.nodes[3].source_file
    /\ schema_proposal.import_order = << schema_proposal.nodes[2].source_file,
                                         schema_proposal.nodes[3].source_file,
                                         schema_proposal.nodes[1].source_file >>

(***************************************************************************)
(* Properties of the relationships of a construction run                   *)
(***************************************************************************)
SuppliedBy(part) == { r \in store_rels : r.type = "SUPPLIED_BY" /\ r.from = part }

\* C21 as stated: SUPPLIED_BY is one-to-one: after any sequence of
\* construction runs without clearing, with Supplier nodes added between the
\* runs or not, every Part has at most one outgoing SUPPLIED_BY edge.
C21_OneSupplierPerPart ==
    \A part \in NodesOf(store_nodes, "Part") : Cardinality(SuppliedBy(part)) <= 1

\* The store without the identities: the nodes by label and properties, the
\* relationships by type and the rows of their ends
NodeView(ns) == { [label |-> n.label, props |-> n.props] : n \in ns }
EdgeView(rs) == { <<r.type, r.from.props, r.to.props>> : r \in rs }
NoDuplicates ==
    /\ Cardinality(NodeView(store_nodes)) = Cardinality(store_nodes)
    /\ Cardinality(EdgeView(store_rels)) = Cardinality(store_rels)

RowsOf(l) == IF l \in DOMAIN data_files THEN Range(data_files[l]) ELSE {}

\* What an uninterrupted run over the data directory leaves in an empty
\* store: a node per row, and the edges of the three relationship statements
FullNodes == UNION { { [label |-> l, props |-> row] : row \in RowsOf(l) } : l \in PlanLabels }

FullEdges ==
    { <<"CONTAINS", p, a>> : <<p, a>> \in { x \in RowsOf("Product") \X RowsOf("Assembly") :
                                              x[1].product_id = x[2].product_id } }
    \cup { <<"IS_PART_OF", t, a>> : <<t, a>> \in { x \in RowsOf("Part") \X RowsOf("Assembly") :
                                                     x[1].assembly_id = x[2].assembly_id } }
    \cup { <<"SUPPLIED_BY", t, s>> :
             <<t, s>> \in { x \in RowsOf("Part") \X RowsOf("Supplier") :
                              \A o \in RowsOf("Supplier") :
                                  IndexIn(x[2].supplier_id, SupplierIdOrder)
                                      <= IndexIn(o.supplier_id, SupplierIdOrder) } }

\* C22: whenever a run is aborted, the nodes and edges in the store are among
\* those of an uninterrupted run, none of them twice; and every run that gets
\* to its end, the run started again without clearing after an aborted one
\* included, leaves exactly the nodes and edges of an uninterrupted run.
C22_CancellationSafety ==
    /\ NodeView(store_nodes) \subseteq FullNodes
    /\ EdgeView(store_rels) \subseteq FullEdges
    /\ NoDuplicates
    /\ (RunEnded /\ history[Len(history)].completed) =>
           /\ NodeView(store_nodes) = FullNodes
           /\ EdgeView(store_rels) = FullEdges

\* C22 witness: a run over the four files was aborted after the batches of
\* two node types, and the run started again without clearing has ended
C22_Witness ==
    /\ RunEnded
    /\ Len(history) = 2
    /\ DOMAIN data_files = PlanLabels
    /\ ~history[1].completed
    /\ DOMAIN history[1].nodes = {"Product", "Assembly"}
    /\ history[2].completed
    /\ history[2].clear_existing = "False"
    /\ Cardinality(store_nodes) = 5
    /\ Cardinality(store_rels) = 3

(***************************************************************************)
(* Totals of the two verifiers                                             *)
(***************************************************************************)

\* The last run got to verify_graph and its node and relationship counts
\* were both answered
CountsAnswered ==
    /\ RunEnded
    /\ history[Len(history)].completed
    /\ Len(sent) >= 3
    /\ sent[Len(sent) - 2].kind = "verify" /\ sent[Len(sent) - 2].ok
    /\ sent[Len(sent) - 1].kind = "verify" /\ sent[Len(sent) - 1].ok

\* The totals verify_graph_tool of the constructor agent reports for the
\* store as it is, when its queries are answered
AgentTotals ==
    [total_nodes |-> SumCounts(NodeCounts(store_nodes)),
     total_relationships |-> SumCounts(RelCounts(store_rels))]

\* C23: when the verifier of the construction script has its count queries
\* answered, its total_nodes is the number of nodes in the store, its
\* total_relationships is the number of directed relationships in the
\* store, and both are the totals the verifier of the constructor agent
\* reports for the same store.
C23_VerifierTotalsMatchStore ==
    CountsAnswered =>
        LET v == history[Len(history)].verification
        IN /\ v.total_nodes = Cardinality(store_nodes)
           /\ v.total_relationships = Cardinality(store_rels)
           /\ v.total_nodes = AgentTotals.total_nodes
           /\ v.total_relationships = AgentTotals.total_relationships

(***************************************************************************)
(* The count create_nodes returns                                          *)
(***************************************************************************)

\* The records of a frame with a value in at least one projected column
FilledRows(df) ==
    { k \in DOMAIN df :
        \E p \in {ConstructionPlan[1].unique_property}
                 \cup Range(ConstructionPlan[1].properties) :
            p \in DOMAIN df[k] /\ df[k][p] # NaN }

\* Which batch statements of a log succeeded, in the order sent
BatchOutcomes(log) == [k \in DOMAIN Batches(log) |-> Batches(log)[k].ok]

\* The call that has returned was made over the records of the call before
\* it, and the same batches succeeded in both
CalledAgain ==
    /\ call.state = "returned"
    /\ call.previous.state = "returned"
    /\ call.previous.df = call.df
    /\ BatchOutcomes(call.previous.sent) = BatchOutcomes(sent)

\* C24: the count create_nodes returns is the number of MERGE clauses in
\* the batches that succeeded, that is the number of records with a value
\* in a projected column when every batch succeeded; a second call over the
\* same records returns the count of the first, and when the batches of the
\* first succeeded it leaves the nodes of the store as they were.
C24_CountsStatementsSent ==
    /\ call.state = "returned" =>
           /\ call.nodes_created = SucceededSize(Batches(sent))
           /\ (\A k \in DOMAIN Batches(sent) : Batches(sent)[k].ok) =>
                  call.nodes_created = Cardinality(FilledRows(call.df))
    /\ CalledAgain =>
           /\ call.nodes_created = call.previous.nodes_created
           /\ (\A k \in DOMAIN Batches(sent) : Batches(sent)[k].ok) =>
                  store_nodes = call.nodes_before

\* C24 witness: a second call over the same two records returned 2 as the
\* first did, and the store holds the nodes it held before the call
C24_Witness ==
    /\ CalledAgain
    /\ Len(call.df) = 2
    /\ call.nodes_created = 2
    /\ call.previous.nodes_created = 2
    /\ store_nodes # {}
    /\ store_nodes = call.nodes_before

(***************************************************************************)
(* Records that lack values                                                *)
(***************************************************************************)

\* The records of a frame with no primary key and a value in a listed column
KeylessRows(df) ==
    { k \in FilledRows(df) : df[k][ConstructionPlan[1].unique_property] = NaN }

\* The batches of a frame that hold a record with a value in a projected
\* column, by their number from 0
FilledBatches(df) == { (k - 1) \div BatchSize : k \in FilledRows(df) }

\* The MERGE clauses of the batch statements sent, added up
SentSize(batches) ==
    SumOver([k \in DOMAIN batches |-> batches[k].size], DOMAIN batches)

\* C25: of a create_nodes call that has returned, the batch statements sent
\* are one for each batch holding a record with a value in a projected
\* column, and their MERGE clauses are one for each such record, a record
\* with no primary key among them and a record with no value at all not; when
\* the statements succeeded every such record is counted, and a record with
\* no primary key is matched by a node of the store that carries its listed
\* values, the MERGE clause made of it naming no primary key.
C25_NullHandling ==
    call.state = "returned" =>
        LET batches == Batches(sent)
        IN /\ Len(batches) = Cardinality(FilledBatches(call.df))
           /\ SentSize(batches) = Cardinality(FilledRows(call.df))
           /\ (\A j \in DOMAIN batches : batches[j].ok) =>
                  /\ call.nodes_created = Cardinality(FilledRows(call.df))
                  /\ \A k \in KeylessRows(call.df) :
                         LET props == Projection(call.df[k], call.unique_property,
                                                 call.properties)
                         IN /\ call.unique_property \notin DOMAIN props
                            /\ props \in upserted
                            /\ \E n \in store_nodes : NodeMatches(n, call.label, props)

\* C25 witness: a record with no primary key and a record with no value
\* were passed; one MERGE clause was sent, the count is 1, and the store
\* holds a Product node without product_id
C25_Witness ==
    /\ call.state = "returned"
    /\ Len(call.df) = 2
    /\ KeylessRows(call.df) = {1}
    /\ FilledRows(call.df) = {1}
    /\ call.nodes_created = 1
    /\ SentSize(Batches(sent)) = 1
    /\ \E n \in store_nodes : n.label = "Product" /\ "product_id" \notin DOMAIN n.props

(***************************************************************************)
(* Clearing and loading                                                    *)
(***************************************************************************)

\* The run is about to load its sources and no file can be read
NothingLoads == pc = "load" /\ DOMAIN data_files = {}

Verified ==
    /\ tool_result.tool = "verify_graph"
    /\ Len(tool_trace) = 3
    /\ \A k \in 1..3 : tool_trace[k][2] # "raise"

\* The k-th query of verify_graph_tool came back with status 'error'
QueryFailed(k) == tool_trace[k][2] = "error"

HasIssue(v, text) == \E i \in DOMAIN v.issues : v.issues[i] = text

\* C27: when no query of verify_graph_tool raises, the tool returns success
\* with a health status; a count query that came back with an error status
\* leaves its total 0 and its list empty, the sample query that did leaves
\* the sample empty, the issue of the component is recorded, and the score
\* is the points of the components whose query was answered with something
\* in it, whatever the store holds.
C27_FailedQueryIsEmptyResult ==
    Verified =>
        LET v == tool_result.verification_results
            nodes_found == ~QueryFailed(1) /\ store_nodes # {}
            rels_found == ~QueryFailed(2) /\ store_rels # {}
            paths_found == ~QueryFailed(3) /\ ConnectedPaths(store_rels) # {}
        IN /\ tool_result.status = "success"
           /\ v.status \in {"healthy", "degraded", "unhealthy"}
           /\ v = tool_state.graph_verification
           /\ QueryFailed(1) => /\ v.total_nodes = 0
                                /\ v.nodes = <<>>
                                /\ HasIssue(v, "No nodes found in graph")
           /\ QueryFailed(2) => /\ v.total_relationships = 0
                                /\ v.relationships = <<>>
                                /\ HasIssue(v, "No relationships found in graph")
           /\ QueryFailed(3) => /\ v.connected_paths = 0
                                /\ HasIssue(v, "No connected paths found")
           /\ v.health_score = (IF nodes_found THEN 40 ELSE 0)
                               + (IF rels_found THEN 40 ELSE 0)
                               + (IF paths_found THEN 20 ELSE 0)

\* C27 witness: the store holds nodes, relationships and connected paths,
\* the node count came back with an error status, and the tool returned
\* success with 60 points, 'degraded' and the issue that no node was found
C27_Witness ==
    /\ Verified
    /\ QueryFailed(1) /\ ~QueryFailed(2) /\ ~QueryFailed(3)
    /\ store_nodes # {}
    /\ tool_result.status = "success"
    /\ tool_result.verification_results.health_score = 60
    /\ tool_result.verification_results.status = "degraded"
    /\ tool_result.verification_results.total_nodes = 0
    /\ HasIssue(tool_result.verification_results, "No nodes found in graph")

(***************************************************************************)
(* The session registry                                                    *)
(***************************************************************************)

\* The step is a call of the SessionManager method `op` with `session_id`
SessionCalled(op, session_id) ==
    /\ now' = now
    /\ session_result'.op = op
    /\ session_result'.session_id = session_id

\* The session is held and its last activity is more than the timeout ago
HeldAndExpired(session_id) ==
    /\ session_id \in sessions
    /\ now - session_objects[session_id].last_activity > session_timeout \div 60

RegistryUnchanged == UNCHANGED <<session_objects, sessions, session_files>>

\* C28: every session the registry holds has is_active true; get_session on
\* a held session that has expired closes it, removes it and returns None;
\* get_session on an id that is not held, closed or never known, returns
\* None and changes nothing; get_session on a held session that has not
\* expired returns it and keeps it; close_session on an id that is not held
\* changes nothing.
C28_RegistryInvariant ==
    /\ [](\A id \in sessions : id \in DOMAIN session_objects /\ session_objects[id].is_active)
    /\ [][\A id \in SessionIds :
            /\ SessionCalled("get_session", id) =>
                  /\ HeldAndExpired(id) =>
                        /\ id \notin sessions'
                        /\ ~session_objects'[id].is_active
                        /\ session_result'.value = "None"
                  /\ id \notin sessions =>
                        /\ session_result'.value = "None"
                        /\ RegistryUnchanged
                  /\ (id \in sessions /\ ~HeldAndExpired(id)) =>
                        /\ session_result'.value = "Session"
                        /\ id \in sessions'
            /\ (SessionCalled("close_session", id) /\ id \notin sessions) =>
                  RegistryUnchanged
       ]_vars

\* C28 witness: two sessions were created, get_session found the first
\* expired and closed it, and the registry holds the second only
C28_Witness ==
    /\ session_result.op = "get_session"
    /\ session_result.session_id = 1
    /\ session_result.value = "None"
    /\ session_result.calls = <<"close_session">>
    /\ sessions = {2}
    /\ ~session_objects[1].is_active
    /\ session_objects[2].is_active

(***************************************************************************)
(* The tasks of a session                                                  *)
(***************************************************************************)

\* The step is a call of the Session method `op` on the object `session_id`
TaskCalled(op, session_id) ==
    /\ now' = now
    /\ session_result'.op = op
    /\ session_result'.session_id = session_id

\* The step adds exactly the current task, with the status given, to
\* completed_tasks and clears the current task
Recorded(session_id, status) ==
    LET before == session_objects[session_id]
        after == session_objects'[session_id]
    IN /\ Len(after.completed_tasks) = Len(before.completed_tasks) + 1
       /\ SubSeq(after.completed_tasks, 1, Len(before.completed_tasks))
              = before.completed_tasks
       /\ after.completed_tasks[Len(after.completed_tasks)].task_id
              = before.current_task.task_id
       /\ after.completed_tasks[Len(after.completed_tasks)].status = status
       /\ after.current_task = NoTask

\* C29: every entry of completed_tasks has status 'completed' or 'failed',
\* the current task when there is one has status 'in_progress', and
\* completed_tasks has no more entries than start_task was called;
\* complete_task and fail_task change nothing when there is no current task
\* and otherwise append exactly the current task and clear it; start_task
\* replaces the current task and records nothing.
C29_TaskTracking ==
    /\ [](\A id \in DOMAIN session_objects :
            LET session == session_objects[id]
            IN /\ \A k \in DOMAIN session.completed_tasks :
                      session.completed_tasks[k].status \in {"completed", "failed"}
               /\ session.current_task # NoTask =>
                      session.current_task.status = "in_progress"
               /\ id \in DOMAIN task_starts =>
                      Len(session.completed_tasks) <= task_starts[id])
    /\ [][\A id \in DOMAIN session_objects :
            /\ TaskCalled("complete_task", id) =>
                  IF session_objects[id].current_task = NoTask
                  THEN UNCHANGED session_objects
                  ELSE Recorded(id, "completed")
            /\ TaskCalled("fail_task", id) =>
                  IF session_objects[id].current_task = NoTask
                  THEN UNCHANGED session_objects
                  ELSE Recorded(id, "failed")
            /\ TaskCalled("start_task", id) =>
                  /\ session_objects'[id].completed_tasks
                         = session_objects[id].completed_tasks
                  /\ session_objects'[id].current_task.status = "in_progress"
       ]_vars

\* C29 witness: three tasks were started, the second while the first was in
\* progress; one was completed and one failed, so two are recorded
C29_Witness ==
    /\ task_starts[1] = 3
    /\ Len(session_objects[1].completed_tasks) = 2
    /\ session_objects[1].completed_tasks[1].status = "completed"
    /\ session_objects[1].completed_tasks[2].status = "failed"
    /\ session_objects[1].current_task = NoTask

(***************************************************************************)
(* The approval of the user's goal                                         *)
(***************************************************************************)

\* The value of a key of tool_context.state, or the empty map when the key
\* is absent
GoalAt(st, key) == IF key \in DOMAIN st.state THEN st.state[key] ELSE <<>>

\* The step is a call of the tool
IntentCalled(tool) == tool_result'.tool = tool

\* A text with nothing in it but blanks
Blank(s) == \A i \in DOMAIN s : s[i] = " "

\* The goal is the perceived goal `p` with status 'approved'
ApprovalOf(goal, p) ==
    /\ goal.status = "approved"
    /\ \A k \in DOMAIN p \ {"status"} : k \in DOMAIN goal /\ goal[k] = p[k]

====
